---------------------------- MODULE Spec2Model ----------------------------
(***************************************************************************)
(* Model of the aimdb-homepilot record bridge: the codecs of the records   *)
(* crate (records/src/switch.rs, records/src/temperature.rs), the inline   *)
(* codecs of the two older entry points, and the four bridge assemblies    *)
(*   ground       (gateway built on the records crate)                     *)
(*   knx_gateway  (gateway with inline record types and codecs)            *)
(*   tower        (console built on the records crate, host build)         *)
(*   console      (console with inline record types and codecs)            *)
(*                                                                         *)
(* Text is a sequence of one-character strings, a bus payload a sequence   *)
(* of bytes (0..255).  A temperature is an f32, held by the hundredths of  *)
(* a degree that format!("{:.2}") shows of it.                             *)
(***************************************************************************)
EXTENDS Integers, Sequences, FiniteSets, TLC

(***************************************************************************)
(* Results (Rust's Result<T, E>)                                           *)
(***************************************************************************)
Ok(v) == [ok |-> TRUE, val |-> v]
Err(e) == [ok |-> FALSE, err |-> e]

(***************************************************************************)
(* Characters and strings.  A character is a one-character string; a       *)
(* character that cannot be written in a string is named by its code       *)
(* point, "u00A0" for U+00A0 (four or more upper-case hexadecimal digits). *)
(***************************************************************************)
\* A byte that is not valid UTF-8 anywhere in a string (0xFF).
BadByte == "xFF"

\* char::is_whitespace: the characters with the Unicode property White_Space
Whitespace ==
    {" ", "\t", "\n", "u000B", "\f", "\r", "u0085", "u00A0", "u1680",
     "u2000", "u2001", "u2002", "u2003", "u2004", "u2005", "u2006", "u2007",
     "u2008", "u2009", "u200A", "u2028", "u2029", "u202F", "u205F", "u3000"}

\* The characters U+0000..U+001F, in order
Controls ==
    <<"u0000", "u0001", "u0002", "u0003", "u0004", "u0005", "u0006", "u0007",
      "u0008", "\t", "\n", "u000B", "\f", "\r", "u000E", "u000F",
      "u0010", "u0011", "u0012", "u0013", "u0014", "u0015", "u0016", "u0017",
      "u0018", "u0019", "u001A", "u001B", "u001C", "u001D", "u001E", "u001F">>

ControlSet == {Controls[i] : i \in 1..32}

\* The characters U+0020..U+007E, in order
Ascii ==
    <<" ", "!", "\"", "#", "$", "%", "&", "'", "(", ")", "*", "+", ",", "-", ".", "/",
      "0", "1", "2", "3", "4", "5", "6", "7", "8", "9", ":", ";", "<", "=", ">", "?",
      "@", "A", "B", "C", "D", "E", "F", "G", "H", "I", "J", "K", "L", "M", "N", "O",
      "P", "Q", "R", "S", "T", "U", "V", "W", "X", "Y", "Z", "[", "\\", "]", "^", "_",
      "u0060", "a", "b", "c", "d", "e", "f", "g", "h", "i", "j", "k", "l", "m", "n", "o",
      "p", "q", "r", "s", "t", "u", "v", "w", "x", "y", "z", "{", "|", "}", "~">>

HexUpper == <<"0", "1", "2", "3", "4", "5", "6", "7", "8", "9", "A", "B", "C", "D", "E", "F">>

HexLower == <<"0", "1", "2", "3", "4", "5", "6", "7", "8", "9", "a", "b", "c", "d", "e", "f">>

IsHex(c) == \E i \in 1..16 : c \in {HexUpper[i], HexLower[i]}

HexVal(c) == (CHOOSE i \in 1..16 : c \in {HexUpper[i], HexLower[i]}) - 1

\* The name of a code point in upper-case hexadecimal, at least four digits
RECURSIVE HexName(_, _)
HexName(cp, width) ==
    IF cp = 0 /\ width <= 0 THEN ""
    ELSE HexName(cp \div 16, width - 1) \o HexUpper[(cp % 16) + 1]

\* The character with a code point
CharOf(cp) ==
    IF cp < 32 THEN Controls[cp + 1]
    ELSE IF cp < 127 THEN Ascii[cp - 31]
    ELSE "u" \o HexName(cp, 4)

\* The characters U+0080..U+07FF, which take two bytes in UTF-8
TwoByteChars == {CharOf(cp) : cp \in 128..2047}

\* char::len_utf8: the bytes a character takes in UTF-8 (a name of four
\* hexadecimal digits is a character up to U+FFFF)
Utf8Len(c) ==
    IF c \in {BadByte, "u007F"} \/ c \in ControlSet \/ (\E i \in 1..95 : Ascii[i] = c)
    THEN 1
    ELSE IF c \in TwoByteChars THEN 2
    ELSE IF Len(c) = 5 THEN 3
    ELSE 4

\* str::len: the length in bytes
RECURSIVE ByteLen(_)
ByteLen(s) == IF s = <<>> THEN 0 ELSE Utf8Len(Head(s)) + ByteLen(Tail(s))

Digits == <<"0", "1", "2", "3", "4", "5", "6", "7", "8", "9">>

DigitSet == {Digits[i] : i \in 1..10}

DigitVal(c) == (CHOOSE i \in 1..10 : Digits[i] = c) - 1

\* core::str::from_utf8 succeeds
Utf8Valid(s) == \A i \in 1..Len(s) : s[i] # BadByte

RECURSIVE TrimStartMatches(_, _)
TrimStartMatches(s, cs) ==
    IF s # <<>> /\ Head(s) \in cs THEN TrimStartMatches(Tail(s), cs) ELSE s

RECURSIVE TrimEndMatches(_, _)
TrimEndMatches(s, cs) ==
    IF s # <<>> /\ s[Len(s)] \in cs
    THEN TrimEndMatches(SubSeq(s, 1, Len(s) - 1), cs)
    ELSE s

\* str::trim_matches: strips every leading and trailing character of cs
TrimMatches(s, cs) == TrimEndMatches(TrimStartMatches(s, cs), cs)

\* str::trim
Trim(s) == TrimMatches(s, Whitespace)

\* str::split(ch): the pieces between the occurrences of ch (at least one piece)
RECURSIVE Split(_, _)
Split(s, ch) ==
    IF \A i \in 1..Len(s) : s[i] # ch
    THEN <<s>>
    ELSE LET i == CHOOSE k \in 1..Len(s) :
                      s[k] = ch /\ \A j \in 1..(k - 1) : s[j] # ch
         IN  <<SubSeq(s, 1, i - 1)>> \o Split(SubSeq(s, i + 1, Len(s)), ch)

RECURSIVE DigitsValue(_)
DigitsValue(ds) ==
    IF ds = <<>> THEN 0
    ELSE 10 * DigitsValue(SubSeq(ds, 1, Len(ds) - 1)) + DigitVal(ds[Len(ds)])

AllDigits(s) == \A i \in 1..Len(s) : s[i] \in DigitSet

\* The widest decimal text the model's integers hold (u64 holds 20 digits; the
\* payloads of the model stay below this width).
MaxDigits == 9

\* str::parse::<u64>(): an optional '+', then one or more digits
ParseU64(s) ==
    LET ds == IF s # <<>> /\ Head(s) = "+" THEN Tail(s) ELSE s
    IN  IF ds # <<>> /\ AllDigits(ds) /\ Len(ds) <= MaxDigits
        THEN Ok(DigitsValue(ds))
        ELSE Err("ParseIntError")

\* Display for u64: decimal, no sign, no padding
RECURSIVE FormatU64(_)
FormatU64(n) ==
    IF n < 10 THEN <<Digits[n + 1]>>
    ELSE FormatU64(n \div 10) \o <<Digits[(n % 10) + 1]>>

\* Display for bool
FormatBool(b) == IF b THEN <<"t", "r", "u", "e">> ELSE <<"f", "a", "l", "s", "e">>

Abs(n) == IF n < 0 THEN -n ELSE n

RECURSIVE Pow2(_)
Pow2(n) == IF n = 0 THEN 1 ELSE 2 * Pow2(n - 1)

RECURSIVE Pow10(_)
Pow10(n) == IF n = 0 THEN 1 ELSE 10 * Pow10(n - 1)

(***************************************************************************)
(* f32.  The model holds a float by what format!("{:.2}") and              *)
(* format!("{:.1}") show of it: its class (a number, an infinity, NaN),    *)
(* its sign, and for a number the hundredths and the tenths shown of its   *)
(* magnitude.  Numbers are held up to 10^(MaxDigits - 2).                  *)
(***************************************************************************)
F32(cls, neg, centi, deci) ==
    [cls |-> cls, neg |-> neg, centi |-> centi, deci |-> deci]

F32NaN == F32("nan", FALSE, 0, 0)

F32Inf(neg) == F32("inf", neg, 0, 0)

\* The 24-bit significand m and the scale k of the float nearest to i + r/den
\* (0 <= r < den, i below 2^24): the float is m / 2^k, ties go to the even m
RECURSIVE F32Significand(_, _, _, _)
F32Significand(i, r, den, k) ==
    IF i >= 8388608 \/ k = 149
    THEN [m |-> i + (IF 2 * r > den \/ (2 * r = den /\ i % 2 = 1) THEN 1 ELSE 0),
          k |-> k]
    ELSE F32Significand(2 * i + (2 * r) \div den, (2 * r) % den, den, k + 1)

\* What a fixed precision shows of m / 2^k in units of 1/u (u = 100 for {:.2},
\* u = 10 for {:.1}): the exact value, ties to the even digit
F32Shown(m, k, u) ==
    LET t == m * u
    IN  IF k = 0 THEN t
        ELSE IF k >= 31 THEN (IF k = 31 /\ t > 1073741824 THEN 1 ELSE 0)
        ELSE LET q == t \div Pow2(k)
                 r == t % Pow2(k)
                 h == Pow2(k - 1)
             IN  q + (IF r > h \/ (r = h /\ q % 2 = 1) THEN 1 ELSE 0)

\* The float nearest to the decimal (-1)^neg * (i + r/den)
F32OfDecimal(neg, i, r, den) ==
    IF i = 0 /\ r = 0 THEN F32("num", neg, 0, 0)
    ELSE LET s == F32Significand(i, r, den, 0)
         IN  F32("num", neg, F32Shown(s.m, s.k, 100), F32Shown(s.m, s.k, 10))

\* The hundredths shown of the float nearest to a hundredths (below 2^17 the
\* floats are less than 0.01 apart, and the nearest float shows a itself)
F32OfCenti(a) ==
    IF a < 13107200 THEN a
    ELSE F32OfDecimal(FALSE, a \div 100, a % 100, 100).centi

\* The float nearest to c hundredths.  Below 2^17 the nearest float is less
\* than 0.004 from c hundredths, so it shows the tenths c rounds to unless c
\* lies halfway between two tenths
Celsius(c) ==
    LET a == Abs(c)
    IN  IF a < 13107200 /\ a % 10 # 5
        THEN F32("num", c < 0, a, (a + 5) \div 10)
        ELSE F32OfDecimal(c < 0, a \div 100, a % 100, 100)

\* The hundredths, with their sign, of a float that is a number
Centi(f) == IF f.neg THEN -f.centi ELSE f.centi

\* format!("{:.2}") of an f32
FormatCentiFixed2(f) ==
    LET sign == IF f.neg THEN <<"-">> ELSE <<>>
        c    == F32OfCenti(f.centi)
    IN  IF f.cls = "nan" THEN <<"N", "a", "N">>
        ELSE IF f.cls = "inf" THEN sign \o <<"i", "n", "f">>
        ELSE sign \o FormatU64(c \div 100)
                \o <<".", Digits[((c % 100) \div 10) + 1], Digits[(c % 10) + 1]>>

\* format!("{:.1}") of an f32
FormatDeciFixed1(f) ==
    LET sign == IF f.neg THEN <<"-">> ELSE <<>>
    IN  IF f.cls = "nan" THEN <<"N", "a", "N">>
        ELSE IF f.cls = "inf" THEN sign \o <<"i", "n", "f">>
        ELSE sign \o FormatU64(f.deci \div 10) \o <<".", Digits[(f.deci % 10) + 1]>>

\* The float nearest to the decimal number (-1)^neg * ip.fp * 10^x, where ip
\* and fp are digit texts
DecimalF32(neg, ip, fp, x) ==
    LET all == ip \o fp
        sig == TrimEndMatches(all, {"0"})
        ds  == TrimStartMatches(sig, {"0"})
        p   == x - Len(fp) + (Len(all) - Len(sig))
    IN  IF ds = <<>> THEN Ok(F32("num", neg, 0, 0))
        ELSE IF Len(ds) + p > 39 THEN Ok(F32Inf(neg))
        ELSE IF Len(ds) + p <= -3 THEN Ok(F32("num", neg, 0, 0))
        ELSE IF Len(ds) > MaxDigits \/ -p > MaxDigits \/ Len(ds) + p > MaxDigits - 2
             THEN Err("outside the range of the model")
        ELSE IF p >= 0 THEN Ok(F32OfDecimal(neg, DigitsValue(ds) * Pow10(p), 0, 1))
        ELSE Ok(F32OfDecimal(neg, DigitsValue(ds) \div Pow10(-p),
                             DigitsValue(ds) % Pow10(-p), Pow10(-p)))

\* The text in lower case (of the letters of inf, infinity and nan)
LowerCase(s) ==
    [i \in 1..Len(s) |->
        CASE s[i] = "I" -> "i" [] s[i] = "N" -> "n" [] s[i] = "F" -> "f"
          [] s[i] = "T" -> "t" [] s[i] = "Y" -> "y" [] s[i] = "A" -> "a"
          [] OTHER -> s[i]]

\* The exponent of a decimal text, [+-] digits (held up to 1000 in magnitude)
DecimalExponent(s) ==
    LET neg == s # <<>> /\ Head(s) = "-"
        ds  == IF s # <<>> /\ Head(s) \in {"+", "-"} THEN Tail(s) ELSE s
        sig == TrimStartMatches(ds, {"0"})
    IN  IF ds = <<>> \/ ~AllDigits(ds) THEN Err("ParseFloatError")
        ELSE Ok((IF neg THEN -1 ELSE 1) * (IF Len(sig) > 3 THEN 1000 ELSE DigitsValue(sig)))

\* str::parse::<f32>(): [+-] then inf, infinity or nan in any case, or
\* digits [. digits] [(e|E) [+-] digits] with a digit before the exponent
ParseF32(s) ==
    LET neg  == s # <<>> /\ Head(s) = "-"
        body == IF s # <<>> /\ Head(s) \in {"+", "-"} THEN Tail(s) ELSE s
        es   == {i \in 1..Len(body) : body[i] \in {"e", "E"}}
        e    == IF es = {} THEN Len(body) + 1
                ELSE CHOOSE i \in es : \A j \in es : i <= j
        ps   == Split(SubSeq(body, 1, e - 1), ".")
        ip   == ps[1]
        fp   == IF Len(ps) = 2 THEN ps[2] ELSE <<>>
        x    == IF es = {} THEN Ok(0)
                ELSE DecimalExponent(SubSeq(body, e + 1, Len(body)))
    IN  IF LowerCase(body) \in {<<"i", "n", "f">>, <<"i", "n", "f", "i", "n", "i", "t", "y">>}
        THEN Ok(F32Inf(neg))
        ELSE IF LowerCase(body) = <<"n", "a", "n">> THEN Ok(F32NaN)
        ELSE IF /\ Len(ps) <= 2
                /\ AllDigits(ip) /\ AllDigits(fp)
                /\ Len(ip) + Len(fp) >= 1
                /\ x.ok
             THEN DecimalF32(neg, ip, fp, x.val)
        ELSE Err("ParseFloatError")

UnwrapOr(r, d) == IF r.ok THEN r.val ELSE d


(***************************************************************************)
(* Record types (records/src/switch.rs, records/src/temperature.rs)        *)
(***************************************************************************)
\* HeaplessString<16>
AddrCapacity == 16

Q == "\""

StrAddress == <<"a", "d", "d", "r", "e", "s", "s">>
StrGroupAddress == <<"g", "r", "o", "u", "p", "_">> \o StrAddress
StrIsOn == <<"i", "s", "_", "o", "n">>
StrTimestamp == <<"t", "i", "m", "e", "s", "t", "a", "m", "p">>
StrCelsius == <<"c", "e", "l", "s", "i", "u", "s">>
StrTrue == <<"t", "r", "u", "e">>
StrFalse == <<"f", "a", "l", "s", "e">>
StrNull == <<"n", "u", "l", "l">>

\* SwitchState / SwitchControl { address, is_on, timestamp }
Switch(a, b, t) == [address |-> a, is_on |-> b, timestamp |-> t]

\* Temperature { address, celsius, timestamp }
Temp(a, c, t) == [address |-> a, celsius |-> c, timestamp |-> t]

\* heapless::String::push_str: appends or, when the capacity is exceeded, fails
\* and leaves the string as it is
PushStr(cur, add) ==
    IF ByteLen(cur) + ByteLen(add) <= AddrCapacity THEN Ok(cur \o add) ELSE Err("capacity")

(***************************************************************************)
(* Textual codec, embedded build (#[cfg(not(feature = "std"))])            *)
(***************************************************************************)
\* format!(r#"{{"address":"{}","is_on":{},"timestamp":{}}}"#, ...)
FormatSwitchJson(addrKey, v) ==
    <<"{", Q>> \o addrKey \o <<Q, ":", Q>> \o v.address \o <<Q, ",", Q>>
        \o StrIsOn \o <<Q, ":">> \o FormatBool(v.is_on) \o <<",", Q>>
        \o StrTimestamp \o <<Q, ":">> \o FormatU64(v.timestamp) \o <<"}">>

\* format!(r#"{{"address":"{}","celsius":{:.2},"timestamp":{}}}"#, ...)
FormatTempJson(addrKey, v) ==
    <<"{", Q>> \o addrKey \o <<Q, ":", Q>> \o v.address \o <<Q, ",", Q>>
        \o StrCelsius \o <<Q, ":">> \o FormatCentiFixed2(v.celsius) \o <<",", Q>>
        \o StrTimestamp \o <<Q, ":">> \o FormatU64(v.timestamp) \o <<"}">>

\* serialize_state writing the key group_address
serialize_state_group_address_key(state) == Ok(FormatSwitchJson(StrGroupAddress, state))

serialize_state_nostd(state) == Ok(FormatSwitchJson(StrAddress, state))

serialize_control_nostd(control) == Ok(FormatSwitchJson(StrAddress, control))

serialize_temp_nostd(temp) == Ok(FormatTempJson(StrAddress, temp))

\* An iteration that also takes 1 and True for true
SwitchPairStepTruthy(acc, pair) ==
    LET parts == Split(pair, ":")
    IN  IF Len(parts) # 2 THEN acc
        ELSE LET key   == TrimMatches(Trim(parts[1]), {Q})
                 value == Trim(parts[2])
             IN  CASE key = StrAddress ->
                        [acc EXCEPT !.address =
                            UnwrapOr(PushStr(@, TrimMatches(value, {Q})), @)]
                   [] key = StrIsOn ->
                        [acc EXCEPT !.is_on =
                            (value \in {StrTrue, <<"1">>, <<"T", "r", "u", "e">>})]
                   [] key = StrTimestamp ->
                        [acc EXCEPT !.timestamp = UnwrapOr(ParseU64(value), 0)]
                   [] OTHER -> acc

\* One iteration of the for pair in ... .split(',') loop of the switch decoders
SwitchPairStep(acc, pair) ==
    LET parts == Split(pair, ":")
    IN  IF Len(parts) # 2 THEN acc
        ELSE LET key   == TrimMatches(Trim(parts[1]), {Q})
                 value == Trim(parts[2])
             IN  CASE key = StrAddress ->
                        [acc EXCEPT !.address =
                            UnwrapOr(PushStr(@, TrimMatches(value, {Q})), @)]
                   [] key = StrIsOn ->
                        [acc EXCEPT !.is_on = (value = StrTrue)]
                   [] key = StrTimestamp ->
                        [acc EXCEPT !.timestamp = UnwrapOr(ParseU64(value), 0)]
                   [] OTHER -> acc

\* One iteration of the loop of the temperature decoder
TempPairStep(acc, pair) ==
    LET parts == Split(pair, ":")
    IN  IF Len(parts) # 2 THEN acc
        ELSE LET key   == TrimMatches(Trim(parts[1]), {Q})
                 value == Trim(parts[2])
             IN  CASE key = StrAddress ->
                        [acc EXCEPT !.address =
                            UnwrapOr(PushStr(@, TrimMatches(value, {Q})), @)]
                   [] key = StrCelsius ->
                        [acc EXCEPT !.celsius = UnwrapOr(ParseF32(value), Celsius(0))]
                   [] key = StrTimestamp ->
                        [acc EXCEPT !.timestamp = UnwrapOr(ParseU64(value), 0)]
                   [] OTHER -> acc

RECURSIVE SwitchPairs(_, _, _)
SwitchPairs(pairs, i, acc) ==
    IF i > Len(pairs) THEN acc
    ELSE SwitchPairs(pairs, i + 1, SwitchPairStep(acc, pairs[i]))

RECURSIVE TempPairs(_, _, _)
TempPairs(pairs, i, acc) ==
    IF i > Len(pairs) THEN acc
    ELSE TempPairs(pairs, i + 1, TempPairStep(acc, pairs[i]))

\* deserialize_state stripping only the opening brace
deserialize_state_keeps_brace(data) ==
    IF ~Utf8Valid(data) THEN Err("Invalid UTF-8")
    ELSE Ok(SwitchPairs(Split(TrimMatches(data, {"{"}), ","), 1,
                        Switch(<<>>, FALSE, 0)))

deserialize_state_nostd(data) ==
    IF ~Utf8Valid(data) THEN Err("Invalid UTF-8")
    ELSE Ok(SwitchPairs(Split(TrimMatches(data, {"{", "}"}), ","), 1,
                        Switch(<<>>, FALSE, 0)))

\* deserialize_control stripping only the opening brace
deserialize_control_keeps_brace(data) ==
    IF ~Utf8Valid(data) THEN Err("Invalid UTF-8")
    ELSE Ok(SwitchPairs(Split(TrimMatches(data, {"{"}), ","), 1,
                        Switch(<<>>, FALSE, 0)))

\* deserialize_control rejecting a payload that holds no key:value pair
deserialize_control_rejects_empty(data) ==
    IF ~Utf8Valid(data) THEN Err("Invalid UTF-8")
    ELSE IF \A i \in 1..Len(data) : data[i] # ":" THEN Err("No fields")
    ELSE Ok(SwitchPairs(Split(TrimMatches(data, {"{", "}"}), ","), 1,
                        Switch(<<>>, FALSE, 0)))

deserialize_control_nostd(data) ==
    IF ~Utf8Valid(data) THEN Err("Invalid UTF-8")
    ELSE Ok(SwitchPairs(Split(TrimMatches(data, {"{", "}"}), ","), 1,
                        Switch(<<>>, FALSE, 0)))

deserialize_temp_nostd(data) ==
    IF ~Utf8Valid(data) THEN Err("Invalid UTF-8")
    ELSE Ok(TempPairs(Split(TrimMatches(data, {"{", "}"}), ","), 1,
                      Temp(<<>>, Celsius(0), 0)))

(***************************************************************************)
(* Textual codec, host build (#[cfg(feature = "std")]): serde_json with    *)
(* the derived Serialize / Deserialize of the record structs.              *)
(***************************************************************************)
\* serde_json's escaping of one character of a string
JsonEscapeChar(c) ==
    LET cp == (CHOOSE i \in 1..32 : Controls[i] = c) - 1
    IN  IF c \in {Q, "\\"} THEN <<"\\", c>>
        ELSE IF c \notin ControlSet THEN <<c>>
        ELSE CASE cp = 8  -> <<"\\", "b">>
               [] cp = 9  -> <<"\\", "t">>
               [] cp = 10 -> <<"\\", "n">>
               [] cp = 12 -> <<"\\", "f">>
               [] cp = 13 -> <<"\\", "r">>
               [] OTHER   -> <<"\\", "u", "0", "0", HexLower[(cp \div 16) + 1],
                               HexLower[(cp % 16) + 1]>>

\* serde_json's escaping of a string: the quote, the backslash and the control
\* characters
RECURSIVE JsonEscape(_)
JsonEscape(s) ==
    IF s = <<>> THEN <<>> ELSE JsonEscapeChar(Head(s)) \o JsonEscape(Tail(s))

\* JSON whitespace: space, line feed, tab, carriage return
JsonWhitespace == {" ", "\n", "\t", "\r"}

RECURSIVE SkipWs(_, _)
SkipWs(s, i) == IF i <= Len(s) /\ s[i] \in JsonWhitespace THEN SkipWs(s, i + 1) ELSE i

\* The four hexadecimal digits of a \u escape at s[i..i+3], as a number, or -1
Hex4At(s, i) ==
    IF i + 3 <= Len(s) /\ \A j \in i..(i + 3) : IsHex(s[j])
    THEN 4096 * HexVal(s[i]) + 256 * HexVal(s[i + 1]) + 16 * HexVal(s[i + 2])
            + HexVal(s[i + 3])
    ELSE -1

\* A \u escape whose digits start at s[i]: the character, the index after the
\* escape, and whether it is a scalar value (a leading surrogate followed by the
\* escape of a trailing surrogate makes one character with it; a surrogate alone
\* is accepted only in a string whose value is ignored)
JsonUnicodeEscape(s, i) ==
    LET n1 == Hex4At(s, i)
        n2 == IF i + 5 <= Len(s) /\ s[i + 4] = "\\" /\ s[i + 5] = "u"
              THEN Hex4At(s, i + 6) ELSE -1
    IN  IF n1 = -1 THEN Err("invalid escape")
        ELSE IF n1 \in 55296..56319 /\ n2 \in 56320..57343
             THEN Ok([c |-> CharOf(65536 + (n1 - 55296) * 1024 + (n2 - 56320)),
                      next |-> i + 10, scalar |-> TRUE])
        ELSE Ok([c |-> CharOf(n1), next |-> i + 4, scalar |-> n1 \notin 55296..57343])

\* The character a one-letter escape stands for
JsonSimpleEscape(c) ==
    CASE c = "b" -> "u0008" [] c = "f" -> "\f" [] c = "n" -> "\n"
      [] c = "r" -> "\r" [] c = "t" -> "\t" [] OTHER -> c

\* The characters of a string literal, from the character after its opening quote;
\* valid tells whether the string is UTF-8 made of scalar values, which a string
\* read into a str must be
RECURSIVE JsonStringBody(_, _, _, _)
JsonStringEscape(s, i, acc, valid) ==
    LET u == JsonUnicodeEscape(s, i + 1)
    IN  IF i > Len(s) THEN Err("EOF while parsing a string")
        ELSE IF s[i] \in {Q, "\\", "/", "b", "f", "n", "r", "t"}
             THEN JsonStringBody(s, i + 1, Append(acc, JsonSimpleEscape(s[i])), valid)
        ELSE IF s[i] # "u" \/ ~u.ok THEN Err("invalid escape")
        ELSE JsonStringBody(s, u.val.next, Append(acc, u.val.c), valid /\ u.val.scalar)

JsonStringBody(s, i, acc, valid) ==
    IF i > Len(s) THEN Err("EOF while parsing a string")
    ELSE IF s[i] = Q
         THEN Ok([v |-> [t |-> "str", s |-> acc, valid |-> valid], next |-> i + 1])
    ELSE IF s[i] = "\\" THEN JsonStringEscape(s, i + 1, acc, valid)
    ELSE IF s[i] \in ControlSet THEN Err("control character while parsing a string")
    ELSE JsonStringBody(s, i + 1, Append(acc, s[i]), valid /\ s[i] # BadByte)

RECURSIVE DigitRunEnd(_, _)
DigitRunEnd(s, i) == IF i <= Len(s) /\ s[i] \in DigitSet THEN DigitRunEnd(s, i + 1) ELSE i

\* A number: -? (0 | [1-9] digits) (. digits+)? ((e|E) [+-]? digits+)?
JsonNumber(s, i) ==
    LET neg == s[i] = "-"
        a   == IF neg THEN i + 1 ELSE i
        b   == DigitRunEnd(s, a)
        hasFrac == b <= Len(s) /\ s[b] = "."
        c   == IF hasFrac THEN DigitRunEnd(s, b + 1) ELSE b
        hasExp == c <= Len(s) /\ s[c] \in {"e", "E"}
        d   == IF hasExp /\ c + 1 <= Len(s) /\ s[c + 1] \in {"+", "-"} THEN c + 2 ELSE c + 1
        e   == IF hasExp THEN DigitRunEnd(s, d) ELSE c
        ip  == SubSeq(s, a, b - 1)
        fp  == IF hasFrac THEN SubSeq(s, b + 1, c - 1) ELSE <<>>
        xs  == IF hasExp THEN SubSeq(s, c + 1, e - 1) ELSE <<>>
    IN  IF \/ ip = <<>>
           \/ (Len(ip) > 1 /\ ip[1] = "0")
           \/ (hasFrac /\ fp = <<>>)
           \/ (hasExp /\ e = d)
        THEN Err("invalid number")
        ELSE Ok([v |-> [t |-> "num", neg |-> neg, ip |-> ip, fp |-> fp,
                        frac |-> hasFrac, exp |-> hasExp, xs |-> xs],
                 next |-> e])

StartsWithAt(s, i, w) == i + Len(w) - 1 <= Len(s) /\ SubSeq(s, i, i + Len(w) - 1) = w

RECURSIVE JsonValue(_, _)
RECURSIVE JsonItems(_, _, _)
RECURSIVE JsonMembers(_, _, _, _)

\* The elements of an array, from the index after '['
JsonArrayOpen(s, i) ==
    IF SkipWs(s, i) <= Len(s) /\ s[SkipWs(s, i)] = "]"
    THEN Ok([v |-> [t |-> "arr", items |-> <<>>], next |-> SkipWs(s, i) + 1])
    ELSE JsonItems(s, SkipWs(s, i), <<>>)

\* The members of an object, from the index after '{'; ignored tells that the
\* object stands inside a value (the struct's own object is read by its visitor,
\* an object inside a value is skipped as an ignored value or is of a wrong type)
JsonObjectOpen(s, i, ignored) ==
    IF SkipWs(s, i) <= Len(s) /\ s[SkipWs(s, i)] = "}"
    THEN Ok([v |-> [t |-> "obj", members |-> <<>>], next |-> SkipWs(s, i) + 1])
    ELSE JsonMembers(s, SkipWs(s, i), <<>>, ignored)

JsonValue(s, i) ==
    IF i > Len(s) THEN Err("EOF while parsing a value")
    ELSE IF s[i] = Q THEN JsonStringBody(s, i + 1, <<>>, TRUE)
    ELSE IF StartsWithAt(s, i, StrTrue)
         THEN Ok([v |-> [t |-> "bool", b |-> TRUE], next |-> i + 4])
    ELSE IF StartsWithAt(s, i, StrFalse)
         THEN Ok([v |-> [t |-> "bool", b |-> FALSE], next |-> i + 5])
    ELSE IF StartsWithAt(s, i, StrNull)
         THEN Ok([v |-> [t |-> "null"], next |-> i + 4])
    ELSE IF s[i] \in DigitSet \union {"-"} THEN JsonNumber(s, i)
    ELSE IF s[i] = "[" THEN JsonArrayOpen(s, i + 1)
    ELSE IF s[i] = "{" THEN JsonObjectOpen(s, i + 1, TRUE)
    ELSE Err("expected value")

\* After an element: ']' ends the array, ',' brings the next element
JsonItemsSep(s, items, e) ==
    IF e > Len(s) THEN Err("EOF while parsing a list")
    ELSE IF s[e] = "]" THEN Ok([v |-> [t |-> "arr", items |-> items], next |-> e + 1])
    ELSE IF s[e] = "," THEN JsonItems(s, SkipWs(s, e + 1), items)
    ELSE Err("expected , or ]")

JsonItemsStep(s, acc, v) ==
    IF ~v.ok THEN v ELSE JsonItemsSep(s, Append(acc, v.val.v), SkipWs(s, v.val.next))

JsonItems(s, i, acc) == JsonItemsStep(s, acc, JsonValue(s, i))

\* The key of a member, from its opening quote: a key of the struct's own object
\* is read into a str, a key of an object inside a value is skipped undecoded
JsonKey(s, i, ignored) ==
    LET Read(k) ==
            IF k.ok /\ ~ignored /\ ~k.val.v.valid THEN Err("invalid unicode code point")
            ELSE k
    IN  IF i > Len(s) \/ s[i] # Q THEN Err("key must be a string")
        ELSE Read(JsonStringBody(s, i + 1, <<>>, TRUE))

\* The colon after a key: the index of the first character of the value
JsonColon(s, i) ==
    IF SkipWs(s, i) > Len(s) \/ s[SkipWs(s, i)] # ":" THEN Err("expected :")
    ELSE Ok(SkipWs(s, SkipWs(s, i) + 1))

JsonMemberDone(key, v) ==
    IF ~v.ok THEN v ELSE Ok([key |-> key, v |-> v.val.v, next |-> v.val.next])

JsonMemberValue(s, key, colon) ==
    IF ~colon.ok THEN colon ELSE JsonMemberDone(key, JsonValue(s, colon.val))

JsonMemberAfterKey(s, k) ==
    IF ~k.ok THEN k ELSE JsonMemberValue(s, k.val.v.s, JsonColon(s, k.val.next))

\* One "key": value member, from the first character of the key
JsonMember(s, i, ignored) == JsonMemberAfterKey(s, JsonKey(s, i, ignored))

\* After a member: '}' ends the object, ',' brings the next member; the result
\* holds the sequence of <<key, value>> in the order of the text
JsonMembersSep(s, mem, e, ignored) ==
    IF e > Len(s) THEN Err("EOF while parsing an object")
    ELSE IF s[e] = "}" THEN Ok([v |-> [t |-> "obj", members |-> mem], next |-> e + 1])
    ELSE IF s[e] = "," THEN JsonMembers(s, SkipWs(s, e + 1), mem, ignored)
    ELSE Err("expected , or }")

JsonMembersStep(s, acc, m, ignored) ==
    IF ~m.ok THEN m
    ELSE JsonMembersSep(s, Append(acc, <<m.val.key, m.val.v>>), SkipWs(s, m.val.next),
                        ignored)

JsonMembers(s, i, acc, ignored) ==
    JsonMembersStep(s, acc, JsonMember(s, i, ignored), ignored)

\* serde_json::from_slice up to the struct visitor: the one value the text holds,
\* an object or an array
JsonObject(s) ==
    LET End(r) ==
            IF ~r.ok THEN r
            ELSE IF SkipWs(s, r.val.next) <= Len(s) THEN Err("trailing characters")
            ELSE Ok(r.val.v)
        From(a) ==
            IF a > Len(s) \/ s[a] \notin {"{", "["}
            THEN Err("invalid type: expected struct")
            ELSE IF s[a] = "{" THEN End(JsonObjectOpen(s, a + 1, FALSE))
            ELSE End(JsonArrayOpen(s, a + 1))
    IN  From(SkipWs(s, 1))

\* The values a struct's visitor gets for a field: from an object those of the
\* members with the field's name, from an array the element at the field's place
FieldValues(o, name, place) ==
    LET idx == IF o.t = "obj"
               THEN {i \in 1..Len(o.members) : o.members[i][1] = name}
               ELSE {i \in 1..Len(o.items) : i = place}
    IN  [n |-> Cardinality(idx),
         v |-> IF idx = {} THEN [t |-> "none"]
               ELSE IF o.t = "obj" THEN o.members[CHOOSE i \in idx : TRUE][2]
               ELSE o.items[place]]

\* Deserialize of one field of a derived struct: the field has no
\* #[serde(default)], so a missing field is an error, as is a repeated one
FieldString(f) ==
    IF f.n = 0 THEN Err("missing field") ELSE IF f.n > 1 THEN Err("duplicate field")
    ELSE IF f.v.t # "str" THEN Err("invalid type")
    ELSE IF ~f.v.valid THEN Err("invalid unicode code point")
    ELSE Ok(f.v.s)

FieldBool(f) ==
    IF f.n = 0 THEN Err("missing field") ELSE IF f.n > 1 THEN Err("duplicate field")
    ELSE IF f.v.t = "bool" THEN Ok(f.v.b) ELSE Err("invalid type")

\* (a u64 is held up to MaxDigits digits)
FieldU64(f) ==
    IF f.n = 0 THEN Err("missing field") ELSE IF f.n > 1 THEN Err("duplicate field")
    ELSE IF f.v.t = "num" /\ ~f.v.neg /\ ~f.v.frac /\ ~f.v.exp /\ Len(f.v.ip) <= MaxDigits
         THEN Ok(DigitsValue(f.v.ip))
    ELSE Err("invalid type")

\* A number read as f64 and cast to f32.  serde_json (without float_roundtrip)
\* collects the digits in a u64 significand while they fit, counts the integer
\* digits beyond it into the exponent and drops the fraction digits beyond it,
\* then multiplies the significand, as f64, by the f64 power of ten of the
\* exponent: it refuses the number when that product is infinite or when the
\* exponent is beyond its table of powers (10^308) and the significand is not 0
FieldF32(f) ==
    LET x  == IF f.v.exp THEN DecimalExponent(f.v.xs).val ELSE 0
        ip == f.v.ip
        fp == f.v.fp
        \* u64::MAX
        MaxU64 == <<"1", "8", "4", "4", "6", "7", "4", "4", "0", "7",
                    "3", "7", "0", "9", "5", "5", "1", "6", "1", "5">>
        \* a < b, for digit texts without leading zeros read as numbers
        Less(a, b) ==
            \/ Len(a) < Len(b)
            \/ /\ Len(a) = Len(b)
               /\ \E i \in 1..Len(a) :
                     /\ DigitVal(a[i]) < DigitVal(b[i])
                     /\ \A j \in 1..(i - 1) : a[j] = b[j]
        \* !overflow!(significand * 10 + digit, u64::MAX) for every digit of ds
        Fits(ds) == ~Less(MaxU64, TrimStartMatches(ds, {"0"}))
        \* the digits of the integer part and then of the fraction the
        \* significand takes
        ni == Cardinality({n \in 0..Len(ip) : Fits(SubSeq(ip, 1, n))}) - 1
        nf == Cardinality({n \in 0..Len(fp) :
                              Fits(SubSeq(ip, 1, ni) \o SubSeq(fp, 1, n))}) - 1
        significand == TrimStartMatches(SubSeq(ip, 1, ni) \o SubSeq(fp, 1, nf), {"0"})
        exponent == (Len(ip) - ni) - nf + x
        \* for the exponents 289 .. 308, the least significand s for which
        \* (s as f64) * 1e<exponent> is infinite; below 289 no u64 reaches it
        Infinite ==
            <<
              <<"1", "7", "9", "7", "6", "9", "3", "1", "3", "4", "8", "6", "2", "3", "1", "5", "6", "2", "2", "5">>,
              <<"1", "7", "9", "7", "6", "9", "3", "1", "3", "4", "8", "6", "2", "3", "1", "5", "6", "4", "9">>,
              <<"1", "7", "9", "7", "6", "9", "3", "1", "3", "4", "8", "6", "2", "3", "1", "6", "0", "0">>,
              <<"1", "7", "9", "7", "6", "9", "3", "1", "3", "4", "8", "6", "2", "3", "1", "5", "8">>,
              <<"1", "7", "9", "7", "6", "9", "3", "1", "3", "4", "8", "6", "2", "3", "1", "6">>,
              <<"1", "7", "9", "7", "6", "9", "3", "1", "3", "4", "8", "6", "2", "3", "2">>,
              <<"1", "7", "9", "7", "6", "9", "3", "1", "3", "4", "8", "6", "2", "4">>,
              <<"1", "7", "9", "7", "6", "9", "3", "1", "3", "4", "8", "6", "3">>,
              <<"1", "7", "9", "7", "6", "9", "3", "1", "3", "4", "8", "7">>,
              <<"1", "7", "9", "7", "6", "9", "3", "1", "3", "4", "9">>,
              <<"1", "7", "9", "7", "6", "9", "3", "1", "3", "5">>,
              <<"1", "7", "9", "7", "6", "9", "3", "1", "4">>,
              <<"1", "7", "9", "7", "6", "9", "3", "2">>,
              <<"1", "7", "9", "7", "6", "9", "4">>,
              <<"1", "7", "9", "7", "7", "0">>,
              <<"1", "7", "9", "7", "7">>,
              <<"1", "7", "9", "8">>,
              <<"1", "8", "0">>,
              <<"1", "8">>,
              <<"2">>>>
    IN  IF f.n = 0 THEN Err("missing field") ELSE IF f.n > 1 THEN Err("duplicate field")
        ELSE IF f.v.t # "num" THEN Err("invalid type")
        ELSE IF /\ significand # <<>>
                /\ \/ exponent > 308
                   \/ /\ exponent >= 289
                      /\ ~Less(significand, Infinite[exponent - 288])
             THEN Err("number out of range")
        ELSE DecimalF32(f.v.neg, ip, fp, x)

\* A struct read from an array has no element beyond its fields
FieldCount(o, n) ==
    IF o.t = "arr" /\ Len(o.items) > n THEN Err("invalid length") ELSE Ok(n)

\* #[derive(Deserialize)] struct SwitchState / SwitchControl
DeriveSwitch(data) ==
    LET Visit(a, b, t, n) ==
            IF ~a.ok THEN a ELSE IF ~b.ok THEN b ELSE IF ~t.ok THEN t
            ELSE IF ~n.ok THEN n
            ELSE Ok(Switch(a.val, b.val, t.val))
        Struct(o) ==
            IF ~o.ok THEN o
            ELSE Visit(FieldString(FieldValues(o.val, StrAddress, 1)),
                       FieldBool(FieldValues(o.val, StrIsOn, 2)),
                       FieldU64(FieldValues(o.val, StrTimestamp, 3)),
                       FieldCount(o.val, 3))
    IN  Struct(JsonObject(data))

\* #[derive(Deserialize)] struct Temperature
DeriveTemp(data) ==
    LET Visit(a, c, t, n) ==
            IF ~a.ok THEN a ELSE IF ~c.ok THEN c ELSE IF ~t.ok THEN t
            ELSE IF ~n.ok THEN n
            ELSE Ok(Temp(a.val, c.val, t.val))
        Struct(o) ==
            IF ~o.ok THEN o
            ELSE Visit(FieldString(FieldValues(o.val, StrAddress, 1)),
                       FieldF32(FieldValues(o.val, StrCelsius, 2)),
                       FieldU64(FieldValues(o.val, StrTimestamp, 3)),
                       FieldCount(o.val, 3))
    IN  Struct(JsonObject(data))

\* serde_json::to_vec(state)
serialize_state_std(state) ==
    Ok(FormatSwitchJson(StrAddress, [state EXCEPT !.address = JsonEscape(@)]))

\* serialize_control writing the timestamp as a JSON string
serialize_control_std_quoted_timestamp(control) ==
    Ok(<<"{", Q>> \o StrAddress \o <<Q, ":", Q>> \o JsonEscape(control.address)
        \o <<Q, ",", Q>> \o StrIsOn \o <<Q, ":">> \o FormatBool(control.is_on)
        \o <<",", Q>> \o StrTimestamp \o <<Q, ":", Q>> \o FormatU64(control.timestamp)
        \o <<Q, "}">>)

serialize_control_std(control) ==
    Ok(FormatSwitchJson(StrAddress, [control EXCEPT !.address = JsonEscape(@)]))

\* serde_json::from_slice(data).map_err(...)
deserialize_state_std(data) == DeriveSwitch(data)

deserialize_control_std(data) == DeriveSwitch(data)

deserialize_temp_std(data) == DeriveTemp(data)

(***************************************************************************)
(* Bus binary codec.  The datapoint coders (aimdb_knx_connector::dpt) are  *)
(* an external library; they are modelled from the codec contract: a       *)
(* boolean datapoint is exactly 1 byte whose least-significant bit is the  *)
(* value, a temperature datapoint exactly 2 bytes MEEEEMMM MMMMMMMM.       *)
(***************************************************************************)
Bytes == 0..255

\* Dpt1::Switch.decode(data)
Dpt1Decode(data) ==
    IF Len(data) # 1 THEN Err("LengthMismatch") ELSE Ok(data[1] % 2 = 1)

\* Dpt1::Switch.encode(value, &mut buf): the bytes written and their count;
\* encOk is the outcome of the library call
Dpt1Encode(value, bufLen, encOk) ==
    IF ~encOk \/ bufLen < 1 THEN Err("EncodeError")
    ELSE Ok([len |-> 1, buf |-> <<IF value THEN 1 ELSE 0>>])

\* Dpt9::Temperature.decode(data), in hundredths of a degree
Dpt9Decode(data) ==
    IF Len(data) # 2 THEN Err("LengthMismatch")
    ELSE LET sign == data[1] \div 128
             exp  == (data[1] \div 8) % 16
             m    == (data[1] % 8) * 256 + data[2]
             mant == IF sign = 1 THEN m - 2048 ELSE m
         IN  Ok(mant * Pow2(exp))

\* The quotient of t by d rounded to the nearest integer
RoundDiv(t, d) == (2 * t + d) \div (2 * d)

\* The least exponent whose mantissa for t fits the 11 bits and the sign
RECURSIVE Dpt9Exponent(_, _)
Dpt9Exponent(t, e) ==
    IF e = 15 \/ RoundDiv(t, Pow2(e)) \in -2048..2047 THEN e
    ELSE Dpt9Exponent(t, e + 1)

\* Dpt9::Temperature.encode of a value in hundredths: the nearest representable
\* value, saturating, as sign, exponent and mantissa in two bytes
Dpt9Encode(t) ==
    LET e    == Dpt9Exponent(t, 0)
        q    == RoundDiv(t, Pow2(e))
        mant == IF q < -2048 THEN -2048 ELSE IF q > 2047 THEN 2047 ELSE q
        sign == IF mant < 0 THEN 1 ELSE 0
        m    == IF mant < 0 THEN mant + 2048 ELSE mant
    IN  <<sign * 128 + e * 8 + m \div 256, m % 256>>

\* The resolution of the format at exponent 0, in hundredths of a degree
Dpt9Resolution == 1

\* deserialize_switch_state_from_knx reading any non-zero byte as on
deserialize_switch_state_nonzero(data, group_address) ==
    LET is_on   == Len(data) = 1 /\ data[1] # 0
        address == PushStr(<<>>, group_address)
    IN  IF ~address.ok THEN Err("Group address too long")
        ELSE Ok(Switch(address.val, is_on, 0))

\* records::switch::knx::deserialize_switch_state_from_knx
deserialize_switch_state_from_knx(data, group_address) ==
    LET is_on   == UnwrapOr(Dpt1Decode(data), FALSE)
        address == PushStr(<<>>, group_address)
    IN  IF ~address.ok THEN Err("Group address too long")
        ELSE Ok(Switch(address.val, is_on, 0))

\* from_knx keeping the whole degrees of the decoded value
from_knx_whole_degrees(data, group_address) ==
    LET celsius == Celsius((UnwrapOr(Dpt9Decode(data), 0) \div 100) * 100)
        address == PushStr(<<>>, group_address)
    IN  IF ~address.ok THEN Err("Group address too long")
        ELSE Ok(Temp(address.val, celsius, 0))

\* records::temperature::knx::from_knx
from_knx(data, group_address) ==
    LET celsius == Celsius(UnwrapOr(Dpt9Decode(data), 0))
        address == PushStr(<<>>, group_address)
    IN  IF ~address.ok THEN Err("Group address too long")
        ELSE Ok(Temp(address.val, celsius, 0))

\* A serializer that encodes only the commands addressed to 1/0/6
serialize_switch_control_for_address(control, encOk) ==
    LET e == Dpt1Encode(control.is_on, 1, encOk)
    IN  IF control.address # <<"1", "/", "0", "/", "6">> THEN Err("Other group address")
        ELSE IF ~e.ok THEN Err("Failed to encode DPT 1.001")
        ELSE Ok(SubSeq(e.val.buf, 1, e.val.len))

\* records::switch::knx::serialize_switch_control_to_knx
serialize_switch_control_to_knx(control, encOk) ==
    LET e == Dpt1Encode(control.is_on, 1, encOk)
    IN  IF ~e.ok THEN Err("Failed to encode DPT 1.001")
        ELSE Ok(SubSeq(e.val.buf, 1, e.val.len))

(***************************************************************************)
(* Inline codecs of knx-gateway/src/main.rs (LightState, Temperature,      *)
(* LightControl; their group_address field is held in `address`)           *)
(***************************************************************************)
Addr107 == <<"1", "/", "0", "/", "7">>
Addr106 == <<"1", "/", "0", "/", "6">>
Addr910 == <<"9", "/", "1", "/", "0">>

light_state_deserializer(data) ==
    LET is_on == UnwrapOr(Dpt1Decode(data), FALSE)
    IN  Ok(Switch(UnwrapOr(PushStr(<<>>, Addr107), <<>>), is_on, 0))

light_state_serializer(state) == Ok(FormatSwitchJson(StrGroupAddress, state))

gateway_temperature_deserializer(data) ==
    LET celsius == Celsius(UnwrapOr(Dpt9Decode(data), 0))
    IN  Ok(Temp(UnwrapOr(PushStr(<<>>, Addr910), <<>>), celsius, 0))

gateway_temperature_serializer(temp) == Ok(FormatTempJson(StrGroupAddress, temp))

LightControlPairStep(acc, pair) ==
    LET parts == Split(pair, ":")
    IN  IF Len(parts) # 2 THEN acc
        ELSE LET key   == TrimMatches(Trim(parts[1]), {Q})
                 value == Trim(parts[2])
             IN  CASE key = StrGroupAddress ->
                        [acc EXCEPT !.address =
                            UnwrapOr(PushStr(@, TrimMatches(value, {Q})), @)]
                   [] key = StrIsOn ->
                        [acc EXCEPT !.is_on = (value = StrTrue)]
                   [] OTHER -> acc

RECURSIVE LightControlPairs(_, _, _)
LightControlPairs(pairs, i, acc) ==
    IF i > Len(pairs) THEN acc
    ELSE LightControlPairs(pairs, i + 1, LightControlPairStep(acc, pairs[i]))

light_control_deserializer(data) ==
    IF ~Utf8Valid(data) THEN Err("Invalid UTF-8")
    ELSE Ok(LightControlPairs(Split(TrimMatches(data, {"{", "}"}), ","), 1,
                              Switch(<<>>, FALSE, 0)))

\* let len = Dpt1::Switch.encode(..).unwrap_or(0); Ok(buf[..len].to_vec())
light_control_serializer(state, encOk) ==
    LET e   == Dpt1Encode(state.is_on, 1, encOk)
        len == IF e.ok THEN e.val.len ELSE 0
        buf == IF e.ok THEN e.val.buf ELSE <<0>>
    IN  Ok(SubSeq(buf, 1, len))

(***************************************************************************)
(* Inline codecs of console/src/main.rs (LightState, SwitchEvent,          *)
(* Temperature; SwitchEvent.pressed is held in `is_on`)                    *)
(***************************************************************************)
\* serde_json::to_vec(state) of the derived LightState
console_light_state_serializer(state) ==
    Ok(FormatSwitchJson(StrAddress, [state EXCEPT !.address = JsonEscape(@)]))

SwitchEventPairStep(acc, pair) ==
    LET parts == Split(pair, ":")
    IN  IF Len(parts) # 2 THEN acc
        ELSE LET key   == TrimMatches(Trim(parts[1]), {Q})
                 value == Trim(parts[2])
             IN  CASE key = StrGroupAddress ->
                        [acc EXCEPT !.address = TrimMatches(value, {Q})]
                   [] key = StrIsOn ->
                        [acc EXCEPT !.is_on = (value = StrTrue)]
                   [] key = StrTimestamp ->
                        [acc EXCEPT !.timestamp = UnwrapOr(ParseU64(value), 0)]
                   [] OTHER -> acc

RECURSIVE SwitchEventPairs(_, _, _)
SwitchEventPairs(pairs, i, acc) ==
    IF i > Len(pairs) THEN acc
    ELSE SwitchEventPairs(pairs, i + 1, SwitchEventPairStep(acc, pairs[i]))

switch_event_deserializer(data) ==
    IF ~Utf8Valid(data) THEN Err("Invalid UTF-8")
    ELSE Ok(SwitchEventPairs(Split(TrimMatches(data, {"{", "}"}), ","), 1,
                             Switch(<<>>, FALSE, 0)))

ConsoleTempPairStep(acc, pair) ==
    LET parts == Split(pair, ":")
    IN  IF Len(parts) # 2 THEN acc
        ELSE LET key   == TrimMatches(Trim(parts[1]), {Q})
                 value == Trim(parts[2])
             IN  CASE key = StrGroupAddress ->
                        [acc EXCEPT !.address = TrimMatches(value, {Q})]
                   [] key = StrCelsius ->
                        [acc EXCEPT !.celsius = UnwrapOr(ParseF32(value), Celsius(0))]
                   [] key = StrTimestamp ->
                        [acc EXCEPT !.timestamp = UnwrapOr(ParseU64(value), 0)]
                   [] OTHER -> acc

RECURSIVE ConsoleTempPairs(_, _, _)
ConsoleTempPairs(pairs, i, acc) ==
    IF i > Len(pairs) THEN acc
    ELSE ConsoleTempPairs(pairs, i + 1, ConsoleTempPairStep(acc, pairs[i]))

console_temperature_deserializer(data) ==
    IF ~Utf8Valid(data) THEN Err("Invalid UTF-8")
    ELSE Ok(ConsoleTempPairs(Split(TrimMatches(data, {"{", "}"}), ","), 1,
                             Temp(<<>>, Celsius(0), 0)))

(***************************************************************************)
(* Bridge assemblies: what each main() registers with builder.configure    *)
(***************************************************************************)
Assemblies == {"ground", "knx_gateway", "tower", "console"}

None == [none |-> TRUE]

In(ep) == [ep |-> ep]
Out(ep) == [ep |-> ep]

\* One registered record: buffer policy, tap, link_from, link_to, and whether
\* the remote-access security policy allows writes to it
RecordSpec(policy, monitor, inbound, outbound, remoteWrite) ==
    [policy |-> policy, monitor |-> monitor, inbound |-> inbound,
     outbound |-> outbound, remoteWrite |-> remoteWrite]

\* The gateway's records with SwitchState registered on a ring
GroundRecordsStateRing ==
    [SwitchState |->
        RecordSpec("SpmcRing", TRUE, In("knx://1/0/7"),
                   Out("mqtt://knx/lights/state"), FALSE),
     Temperature |->
        RecordSpec("SingleLatest", TRUE, In("knx://9/1/0"),
                   Out("mqtt://knx/temperature/state"), FALSE),
     SwitchControl |->
        RecordSpec("SingleLatest", TRUE, In("mqtt://knx/lights/control"),
                   Out("knx://1/0/6"), FALSE)]

\* ground/src/main.rs: configure::<SwitchState>, ::<Temperature>, ::<SwitchControl>
GroundRecords ==
    [SwitchState |->
        RecordSpec("SingleLatest", TRUE, In("knx://1/0/7"),
                   Out("mqtt://knx/lights/state"), FALSE),
     Temperature |->
        RecordSpec("SingleLatest", TRUE, In("knx://9/1/0"),
                   Out("mqtt://knx/temperature/state"), FALSE),
     SwitchControl |->
        RecordSpec("SingleLatest", TRUE, In("mqtt://knx/lights/control"),
                   Out("knx://1/0/6"), FALSE)]

\* knx-gateway/src/main.rs: configure::<LightState>, ::<Temperature>, ::<LightControl>
KnxGatewayRecords ==
    [LightState |->
        RecordSpec("SingleLatest", TRUE, In("knx://1/0/7"),
                   Out("mqtt://knx/lights/state"), FALSE),
     Temperature |->
        RecordSpec("SingleLatest", TRUE, In("knx://9/1/0"),
                   Out("mqtt://knx/temperature/state"), FALSE),
     LightControl |->
        RecordSpec("SingleLatest", TRUE, In("mqtt://knx/lights/control"),
                   Out("knx://1/0/6"), FALSE)]

\* The console's records with SwitchControl registered as a latest-value cell
TowerRecordsControlLatest ==
    [SwitchState |->
        RecordSpec("SingleLatest", FALSE, In("mqtt://knx/lights/state"), None, FALSE),
     SwitchControl |->
        RecordSpec("SingleLatest", FALSE, None, Out("mqtt://knx/lights/control"), TRUE),
     Temperature |->
        RecordSpec("SingleLatest", FALSE, In("mqtt://knx/temperature/state"), None,
                   FALSE)]

\* tower/src/main.rs: configure::<SwitchState>, ::<SwitchControl>, ::<Temperature>
\* and security_policy.allow_write::<SwitchControl>()
TowerRecords ==
    [SwitchState |->
        RecordSpec("SingleLatest", FALSE, In("mqtt://knx/lights/state"), None, FALSE),
     SwitchControl |->
        RecordSpec("SpmcRing", FALSE, None, Out("mqtt://knx/lights/control"), TRUE),
     Temperature |->
        RecordSpec("SingleLatest", FALSE, In("mqtt://knx/temperature/state"), None,
                   FALSE)]

\* console/src/main.rs: configure::<LightState>, ::<SwitchEvent>, ::<Temperature>
\* and security_policy.allow_write::<LightState>()
ConsoleRecords ==
    [LightState |->
        RecordSpec("SingleLatest", FALSE, None, Out("mqtt://knx/lights/control"), TRUE),
     SwitchEvent |->
        RecordSpec("SpmcRing", FALSE, In("mqtt://knx/lights/state"), None, FALSE),
     Temperature |->
        RecordSpec("SingleLatest", FALSE, In("mqtt://knx/temperature/state"), None,
                   FALSE)]

RecordsOf(a) ==
    CASE a = "ground" -> GroundRecords
      [] a = "knx_gateway" -> KnxGatewayRecords
      [] a = "tower" -> TowerRecords
      [] a = "console" -> ConsoleRecords

RecordIds ==
    {"SwitchState", "Temperature", "SwitchControl", "LightState", "LightControl",
     "SwitchEvent"}

Registered(a) == DOMAIN RecordsOf(a)

\* The ring capacity the consoles register is 50 (BufferCfg::SpmcRing
\* { capacity: 50 }); the model runs the ring with a small capacity.
RingCapacity == 2

\* The number of values a cell of the policy retains
Capacity(policy) == IF policy = "SingleLatest" THEN 1 ELSE RingCapacity

\* with_deserializer(...) of the record's link_from
Decode(a, r, data) ==
    IF a = "ground"
    THEN IF r = "SwitchState" THEN deserialize_switch_state_from_knx(data, Addr107)
         ELSE IF r = "Temperature" THEN from_knx(data, Addr910)
         ELSE deserialize_control_nostd(data)
    ELSE IF a = "knx_gateway"
    THEN IF r = "LightState" THEN light_state_deserializer(data)
         ELSE IF r = "Temperature" THEN gateway_temperature_deserializer(data)
         ELSE light_control_deserializer(data)
    ELSE IF a = "tower"
    THEN IF r = "SwitchState" THEN deserialize_state_std(data)
         ELSE deserialize_temp_std(data)
    ELSE IF r = "SwitchEvent" THEN switch_event_deserializer(data)
         ELSE console_temperature_deserializer(data)

\* with_serializer(...) of the record's link_to; encOk is the outcome of the
\* datapoint encoder the serializer calls, if it calls one
Encode(a, r, v, encOk) ==
    LET \* .map_err(|_| SerializeError::InvalidData)
        MapErr(res) == IF res.ok THEN res ELSE Err("InvalidData")
    IN
    IF a = "ground"
    THEN IF r = "SwitchState" THEN serialize_state_nostd(v)
         ELSE IF r = "Temperature" THEN serialize_temp_nostd(v)
         ELSE MapErr(serialize_switch_control_to_knx(v, encOk))
    ELSE IF a = "knx_gateway"
    THEN IF r = "LightState" THEN light_state_serializer(v)
         ELSE IF r = "Temperature" THEN gateway_temperature_serializer(v)
         ELSE light_control_serializer(v, encOk)
    ELSE IF a = "tower" THEN serialize_control_std(v)
    ELSE console_light_state_serializer(v)

\* Whether the record's serializer calls the DPT 1.001 encoder
UsesDptEncoder(a, r) ==
    \/ a = "ground" /\ r = "SwitchControl"
    \/ a = "knx_gateway" /\ r = "LightControl"

(***************************************************************************)
(* Buffer cells.  The buffers belong to the record store (aimdb), an       *)
(* external collaborator; they are modelled from the buffer policy         *)
(* contract: a cell retains the last Capacity values, every reader has its *)
(* own cursor, a reader whose next entry was overwritten continues at the  *)
(* oldest surviving entry, and a new subscription starts at the next       *)
(* write.  Every entry carries the position of its write in the stream.    *)
(***************************************************************************)
EmptyCell == [buf |-> <<>>, written |-> 0]

\* write(CellHandle, value)
Write(c, cap, v) ==
    LET n == c.written + 1
        b == Append(c.buf, [seq |-> n, val |-> v])
    IN  [buf |-> IF Len(b) > cap THEN Tail(b) ELSE b, written |-> n]

\* A reader at cursor cur has an entry to receive
CanRecv(c, cur) == cur < c.written

\* Reader.recv(): the oldest retained entry the reader has not passed
Recv(c, cur) ==
    c.buf[CHOOSE i \in 1..Len(c.buf) :
            /\ c.buf[i].seq > cur
            /\ \A j \in 1..(i - 1) : c.buf[j].seq <= cur]

\* The value a read of a populated latest-value cell returns
Latest(c) == c.buf[Len(c.buf)].val

Populated(c) == c.buf # <<>>

(***************************************************************************)
(* Payloads the connectors deliver and values remote clients write         *)
(***************************************************************************)
JsonPair(k, v) == <<Q>> \o k \o <<Q, ":">> \o v

Quoted(s) == <<Q>> \o s \o <<Q>>

\* The command the gateway documents: {"group_address":"1/0/6","is_on":true}
DocumentedCommand ==
    <<"{">> \o JsonPair(StrGroupAddress, Quoted(Addr106)) \o <<",">>
        \o JsonPair(StrIsOn, StrTrue) \o <<"}">>

BusSwitchPayloads == {<<>>, <<0>>, <<1>>, <<1, 0, 0>>}

\* 0x0C 0x1A is 21.00 degrees
BusTempPayloads == {<<12>>, <<12, 26>>}

ControlTextPayloads ==
    {DocumentedCommand,
     FormatSwitchJson(StrAddress, Switch(Addr106, TRUE, 5)),
     <<BadByte>>}

StateTextPayloads ==
    {FormatSwitchJson(StrAddress, Switch(Addr107, TRUE, 0)),
     FormatSwitchJson(StrGroupAddress, Switch(Addr107, TRUE, 0)),
     <<BadByte>>}

TempTextPayloads ==
    {FormatTempJson(StrAddress, Temp(Addr910, Celsius(2100), 0)),
     FormatTempJson(StrGroupAddress, Temp(Addr910, Celsius(2100), 0))}

\* What the transport connector can deliver to the inbound endpoint
Payloads(ep) ==
    CASE ep = "knx://1/0/7" -> BusSwitchPayloads
      [] ep = "knx://9/1/0" -> BusTempPayloads
      [] ep = "mqtt://knx/lights/control" -> ControlTextPayloads
      [] ep = "mqtt://knx/lights/state" -> StateTextPayloads
      [] ep = "mqtt://knx/temperature/state" -> TempTextPayloads

\* What a remote client can set a writable record to
RemoteValues == {Switch(Addr106, b, 0) : b \in BOOLEAN}

\* The events (deliveries, remote writes and failed reads of a monitor) one
\* behaviour holds: on a gateway,
\* and on a console (where a ring has to overflow)
GatewayMaxEvents == 2

ConsoleMaxEvents == 3

Gateways == {"ground", "knx_gateway"}

Consoles == {"tower", "console"}

MaxEvents(a) == IF a \in Gateways THEN GatewayMaxEvents ELSE ConsoleMaxEvents

(***************************************************************************)
(* State                                                                   *)
(***************************************************************************)
VARIABLES
    asm,     \* the assembly that runs
    reg,     \* the calls made on the builder's registrars so far, in order
    built,   \* what builder.build() returned: "pending", "ok", "failed"
    phase,   \* where main() is: "configuring", "configured", "running",
             \* "panicked" (a gateway whose build failed), "exited" (a console
             \* whose build failed), "stopped" (a console after Ctrl+C)
    cell,    \* per record: the buffer cell
    out,     \* per record: the cursor of the outbound binding's reader
    mon,     \* per record: the monitor task: its place, its reader's cursor and
             \* the number of writes that preceded its subscription
    sending, \* per record: whether the outbound binding is suspended in the
             \* connector's send
    sent,    \* per record: what the outbound binding handed to its connector, with
             \* the position of the value and the number of writes at that time
    log,     \* per record: what the monitor logged
    events,  \* deliveries, remote writes and failed reads of monitors so far
    writes,  \* per record: the values written to its cell, in the order written
    last,    \* the step main() or a binding took last and its outcome; no step
             \* after a step of a monitor or the return of a send
    sub      \* the subscription of a remote client to a ring record: its place,
             \* its reader's cursor and the positions of the entries it read

vars == <<asm, reg, built, phase, cell, out, mon, sending, sent, log, events, writes,
          last, sub>>

Idle == [pc |-> "idle", cur |-> 0, since |-> 0]

NoStep == [kind |-> "none"]

NoSubscription == [pc |-> "idle"]

InitBridge(a) ==
    /\ asm = a
    /\ reg = <<>>
    /\ built = "pending"
    /\ phase = "configuring"
    /\ sending = [r \in RecordIds |-> FALSE]
    /\ cell = [r \in RecordIds |-> EmptyCell]
    /\ out = [r \in RecordIds |-> 0]
    /\ mon = [r \in RecordIds |-> Idle]
    /\ sent = [r \in RecordIds |-> <<>>]
    /\ log = [r \in RecordIds |-> <<>>]
    /\ events = 0
    /\ writes = [r \in RecordIds |-> <<>>]
    /\ last = NoStep
    /\ sub = NoSubscription

\* The gateway and the console built on the records crate
InitRecords == \E a \in {"ground", "tower"} : InitBridge(a)

\* The gateway and the console with inline record types and codecs
InitInline == \E a \in {"knx_gateway", "console"} : InitBridge(a)

(***************************************************************************)
(* Bridge steps                                                            *)
(***************************************************************************)
\* The records in the order of the builder.configure::<T>(..) calls of main()
ConfigureOrder(a) ==
    CASE a = "ground" -> <<"SwitchState", "Temperature", "SwitchControl">>
      [] a = "knx_gateway" -> <<"LightState", "Temperature", "LightControl">>
      [] a = "tower" -> <<"SwitchState", "SwitchControl", "Temperature">>
      [] a = "console" -> <<"LightState", "SwitchEvent", "Temperature">>

\* A configure closure that registers its link bindings before it creates the
\* buffer
RegistrarCallsLinksFirst(rs) ==
    (IF rs.inbound # None THEN <<"link_from">> ELSE <<>>)
        \o (IF rs.outbound # None THEN <<"link_to">> ELSE <<>>)
        \o <<"buffer">>
        \o (IF rs.monitor THEN <<"tap">> ELSE <<>>)

\* The calls of one configure closure on its registrar, in the order written:
\* reg.buffer(..) or buffer_sized, then .tap(..), .link_from(..), .link_to(..)
RegistrarCalls(rs) ==
    <<"buffer">>
        \o (IF rs.monitor THEN <<"tap">> ELSE <<>>)
        \o (IF rs.inbound # None THEN <<"link_from">> ELSE <<>>)
        \o (IF rs.outbound # None THEN <<"link_to">> ELSE <<>>)

RECURSIVE ConfigureCalls(_, _)
ConfigureCalls(a, order) ==
    IF order = <<>> THEN <<>>
    ELSE LET calls == RegistrarCalls(RecordsOf(a)[Head(order)])
         IN  [i \in 1..Len(calls) |-> [rec |-> Head(order), op |-> calls[i]]]
                \o ConfigureCalls(a, Tail(order))

\* Every registrar call main() makes before build(), in order
Script(a) == ConfigureCalls(a, ConfigureOrder(a))

\* main(): the next registrar call of the configure closures
Configure ==
    /\ phase = "configuring"
    /\ Len(reg) < Len(Script(asm))
    /\ reg' = Append(reg, Script(asm)[Len(reg) + 1])
    /\ phase' = IF Len(reg') = Len(Script(asm)) THEN "configured" ELSE "configuring"
    /\ last' = [kind |-> "configure", rec |-> Script(asm)[Len(reg) + 1].rec,
                op |-> Script(asm)[Len(reg) + 1].op]
    /\ UNCHANGED <<asm, sub, built, cell, out, mon, sending, sent, log, events, writes>>

\* main() going on whatever build() returned
BuildResultIgnored(a, ok) == "running"

\* builder.build().await followed by .expect(..) on the gateways and by ? on
\* the consoles: the phase main() is in afterwards
BuildResult(a, ok) ==
    IF ok THEN "running"
    ELSE IF a \in Gateways THEN "panicked" ELSE "exited"

\* main(): the build of the configured bridge; on success the tasks of the
\* bindings and the taps are spawned
Build(ok) ==
    /\ phase = "configured"
    /\ built' = IF ok THEN "ok" ELSE "failed"
    /\ phase' = BuildResult(asm, ok)
    /\ mon' = [r \in RecordIds |->
                IF phase' = "running" /\ r \in Registered(asm)
                   /\ RecordsOf(asm)[r].monitor
                THEN [pc |-> "started", cur |-> 0, since |-> 0] ELSE Idle]
    /\ last' = [kind |-> "build", ok |-> ok]
    /\ UNCHANGED <<asm, sub, reg, sending, cell, out, sent, log, events, writes>>

\* What the deserializer of each inbound binding returns for each payload its
\* connector can deliver
Deserialized ==
    [a \in Assemblies |->
        [r \in {x \in Registered(a) : RecordsOf(a)[x].inbound # None} |->
            [data \in Payloads(RecordsOf(a)[r].inbound.ep) |-> Decode(a, r, data)]]]



\* An inbound binding that unwraps what its deserializer returned
DeliverStopsOnError(r, data) ==
    /\ phase = "running"
    /\ events < MaxEvents(asm)
    /\ LET res == Deserialized[asm][r][data]
       IN  /\ cell' = IF res.ok
                      THEN [cell EXCEPT ![r] =
                              Write(@, Capacity(RecordsOf(asm)[r].policy), res.val)]
                      ELSE cell
           /\ writes' = IF res.ok THEN [writes EXCEPT ![r] = Append(@, res.val)]
                        ELSE writes
           /\ phase' = IF res.ok THEN phase ELSE "panicked"
           /\ last' = [kind |-> "deliver", rec |-> r, data |-> data, ok |-> res.ok]
    /\ events' = events + 1
    /\ UNCHANGED <<asm, sub, reg, sending, built, out, mon, sent, log>>

\* An inbound binding whose write waits while the cell holds as many values as
\* its capacity
DeliverWaitsForSpace(r, data) ==
    /\ phase = "running"
    /\ events < MaxEvents(asm)
    /\ Len(cell[r].buf) < Capacity(RecordsOf(asm)[r].policy)
    /\ LET res == Deserialized[asm][r][data]
       IN  /\ cell' = IF res.ok
                      THEN [cell EXCEPT ![r] =
                              Write(@, Capacity(RecordsOf(asm)[r].policy), res.val)]
                      ELSE cell
           /\ writes' = IF res.ok THEN [writes EXCEPT ![r] = Append(@, res.val)]
                        ELSE writes
           /\ last' = [kind |-> "deliver", rec |-> r, data |-> data, ok |-> res.ok]
    /\ events' = events + 1
    /\ UNCHANGED <<asm, sub, reg, sending, built, phase, out, mon, sent, log>>

\* connector.on_receive(endpoint, bytes) of an inbound binding: decode and, on
\* success, write to the record's cell
Deliver(r, data) ==
    /\ phase = "running"
    /\ events < MaxEvents(asm)
    /\ LET res == Deserialized[asm][r][data]
       IN  /\ cell' = IF res.ok
                      THEN [cell EXCEPT ![r] =
                              Write(@, Capacity(RecordsOf(asm)[r].policy), res.val)]
                      ELSE cell
           /\ writes' = IF res.ok THEN [writes EXCEPT ![r] = Append(@, res.val)]
                        ELSE writes
           /\ last' = [kind |-> "deliver", rec |-> r, data |-> data, ok |-> res.ok]
    /\ events' = events + 1
    /\ UNCHANGED <<asm, sub, reg, sending, built, phase, out, mon, sent, log>>

\* record.set of a remote client on a record the security policy lets it write
RemoteWrite(r, v) ==
    /\ phase = "running"
    /\ events < MaxEvents(asm)
    /\ cell' = [cell EXCEPT ![r] = Write(@, Capacity(RecordsOf(asm)[r].policy), v)]
    /\ writes' = [writes EXCEPT ![r] = Append(@, v)]
    /\ last' = [kind |-> "remote_write", rec |-> r, val |-> v]
    /\ events' = events + 1
    /\ UNCHANGED <<asm, sub, reg, sending, built, phase, out, mon, sent, log>>

\* Outbound bindings that share one send: none takes its next entry while the
\* send of another is in flight
PublishOneAtATime(r, encOk) ==
    /\ phase = "running"
    /\ \A r2 \in RecordIds : ~sending[r2]
    /\ CanRecv(cell[r], out[r])
    /\ LET e   == Recv(cell[r], out[r])
           res == Encode(asm, r, e.val, encOk)
       IN  /\ out' = [out EXCEPT ![r] = e.seq]
           /\ sent' = IF res.ok
                      THEN [sent EXCEPT ![r] =
                              Append(@, [ep |-> RecordsOf(asm)[r].outbound.ep,
                                         bytes |-> res.val, seq |-> e.seq,
                                         at |-> cell[r].written])]
                      ELSE sent
           /\ sending' = [sending EXCEPT ![r] = res.ok]
           /\ last' = [kind |-> "publish", rec |-> r, seq |-> e.seq,
                       encOk |-> encOk, ok |-> res.ok]
    /\ UNCHANGED <<asm, sub, reg, built, phase, cell, mon, log, events, writes>>

\* An outbound binding whose reader yields the newest entry of the cell
PublishNewest(r, encOk) ==
    /\ phase = "running"
    /\ ~sending[r]
    /\ CanRecv(cell[r], out[r])
    /\ LET e   == cell[r].buf[Len(cell[r].buf)]
           res == Encode(asm, r, e.val, encOk)
       IN  /\ out' = [out EXCEPT ![r] = e.seq]
           /\ sent' = IF res.ok
                      THEN [sent EXCEPT ![r] =
                              Append(@, [ep |-> RecordsOf(asm)[r].outbound.ep,
                                         bytes |-> res.val, seq |-> e.seq,
                                         at |-> cell[r].written])]
                      ELSE sent
           /\ sending' = [sending EXCEPT ![r] = res.ok]
           /\ last' = [kind |-> "publish", rec |-> r, seq |-> e.seq,
                       encOk |-> encOk, ok |-> res.ok]
    /\ UNCHANGED <<asm, sub, reg, built, phase, cell, mon, log, events, writes>>

\* The task of an outbound binding: receive the next entry, serialize it and, on
\* success, hand the bytes to the connector, whose send suspends the task
Publish(r, encOk) ==
    /\ phase = "running"
    /\ ~sending[r]
    /\ CanRecv(cell[r], out[r])
    /\ LET e   == Recv(cell[r], out[r])
           res == Encode(asm, r, e.val, encOk)
       IN  /\ out' = [out EXCEPT ![r] = e.seq]
           /\ sent' = IF res.ok
                      THEN [sent EXCEPT ![r] =
                              Append(@, [ep |-> RecordsOf(asm)[r].outbound.ep,
                                         bytes |-> res.val, seq |-> e.seq,
                                         at |-> cell[r].written])]
                      ELSE sent
           /\ sending' = [sending EXCEPT ![r] = res.ok]
           /\ last' = [kind |-> "publish", rec |-> r, seq |-> e.seq,
                       encOk |-> encOk, ok |-> res.ok]
    /\ UNCHANGED <<asm, sub, reg, built, phase, cell, mon, log, events, writes>>

\* The connector's send returns and the task of the outbound binding goes on
SendDone(r) ==
    /\ phase = "running"
    /\ sending[r]
    /\ sending' = [sending EXCEPT ![r] = FALSE]
    /\ last' = NoStep
    /\ UNCHANGED <<asm, sub, reg, built, phase, cell, out, mon, sent, log, events, writes>>

\* What a monitor writes for a value: the address and ON / OFF or the reading
\* as "{:.1}" formats it
MonitorLine(v) ==
    [address |-> v.address,
     shown |-> IF "is_on" \in DOMAIN v
               THEN (IF v.is_on THEN <<"O", "N">> ELSE <<"O", "F", "F">>)
               ELSE FormatDeciFixed1(v.celsius)]

\* A monitor that logs the failure of consumer.subscribe() and tries again
MonitorSubscribeRetries(r, ok) ==
    /\ phase = "running"
    /\ mon[r].pc = "started"
    /\ Len(log[r]) < 4
    /\ mon' = [mon EXCEPT ![r] =
                IF ok THEN [pc |-> "subscribed", cur |-> cell[r].written,
                            since |-> cell[r].written]
                ELSE @]
    /\ log' = [log EXCEPT ![r] =
                IF ok THEN Append(@, [kind |-> "started"])
                ELSE Append(Append(@, [kind |-> "started"]), [kind |-> "error"])]
    /\ last' = NoStep
    /\ UNCHANGED <<asm, sub, reg, sending, built, phase, cell, out, sent, events, writes>>

\* A subscription whose reader starts at the value the cell holds
MonitorSubscribeFromStored(r, ok) ==
    /\ phase = "running"
    /\ mon[r].pc = "started"
    /\ mon' = [mon EXCEPT ![r] =
                IF ok THEN [pc |-> "subscribed",
                            cur |-> cell[r].written - Len(cell[r].buf),
                            since |-> cell[r].written]
                ELSE [pc |-> "failed", cur |-> 0, since |-> 0]]
    /\ log' = [log EXCEPT ![r] =
                IF ok THEN Append(@, [kind |-> "started"])
                ELSE Append(Append(@, [kind |-> "started"]), [kind |-> "error"])]
    /\ last' = NoStep
    /\ UNCHANGED <<asm, sub, reg, sending, built, phase, cell, out, sent, events, writes>>

\* state_monitor / control_monitor / monitor up to its first await: it logs
\* "... monitor started" and calls consumer.subscribe(), on whose failure it
\* logs an error and returns
MonitorSubscribe(r, ok) ==
    /\ phase = "running"
    /\ mon[r].pc = "started"
    /\ mon' = [mon EXCEPT ![r] =
                IF ok THEN [pc |-> "subscribed", cur |-> cell[r].written,
                            since |-> cell[r].written]
                ELSE [pc |-> "failed", cur |-> 0, since |-> 0]]
    /\ log' = [log EXCEPT ![r] =
                IF ok THEN Append(@, [kind |-> "started"])
                ELSE Append(Append(@, [kind |-> "started"]), [kind |-> "error"])]
    /\ last' = NoStep
    /\ UNCHANGED <<asm, sub, reg, sending, built, phase, cell, out, sent, events, writes>>

\* A monitor that logs the oldest value its reader holds without taking it
MonitorRecvPeek(r) ==
    /\ phase = "running"
    /\ mon[r].pc = "subscribed"
    /\ CanRecv(cell[r], mon[r].cur)
    /\ Len(log[r]) < 3
    /\ LET e == Recv(cell[r], mon[r].cur)
       IN  log' = [log EXCEPT ![r] =
                     Append(@, [kind |-> "value", line |-> MonitorLine(e.val),
                                seq |-> e.seq])]
    /\ last' = NoStep
    /\ UNCHANGED <<asm, sub, reg, sending, built, phase, cell, out, mon, sent, events, writes>>

\* A monitor that returns after the first value its reader yields
MonitorRecvOnce(r) ==
    /\ phase = "running"
    /\ mon[r].pc = "subscribed"
    /\ CanRecv(cell[r], mon[r].cur)
    /\ LET e == Recv(cell[r], mon[r].cur)
       IN  /\ mon' = [mon EXCEPT ![r] = [pc |-> "ended", cur |-> 0, since |-> 0]]
           /\ log' = [log EXCEPT ![r] =
                        Append(@, [kind |-> "value", line |-> MonitorLine(e.val),
                                   seq |-> e.seq])]
           /\ last' = NoStep
    /\ UNCHANGED <<asm, sub, reg, sending, built, phase, cell, out, sent, events, writes>>

\* while let Ok(state) = reader.recv().await { log.info(..) }
MonitorRecv(r) ==
    /\ phase = "running"
    /\ mon[r].pc = "subscribed"
    /\ CanRecv(cell[r], mon[r].cur)
    /\ LET e == Recv(cell[r], mon[r].cur)
       IN  /\ mon' = [mon EXCEPT ![r].cur = e.seq]
           /\ log' = [log EXCEPT ![r] =
                        Append(@, [kind |-> "value", line |-> MonitorLine(e.val),
                                   seq |-> e.seq])]
           /\ last' = NoStep
    /\ UNCHANGED <<asm, sub, reg, sending, built, phase, cell, out, sent, events, writes>>

\* reader.recv().await returns an error (the store tore the subscription down):
\* the while let loop ends and the monitor returns, dropping its reader
MonitorRecvErr(r) ==
    /\ phase = "running"
    /\ mon[r].pc = "subscribed"
    /\ events < MaxEvents(asm)
    /\ mon' = [mon EXCEPT ![r] = [pc |-> "ended", cur |-> 0, since |-> 0]]
    /\ events' = events + 1
    /\ last' = NoStep
    /\ UNCHANGED <<asm, sub, reg, sending, built, phase, cell, out, sent, log, writes>>

\* The records a remote client's subscription is followed on: the ring records
RemoteSubscribable(a) ==
    {r \in Registered(a) : RecordsOf(a)[r].policy = "SpmcRing"}

\* record.subscribe of a remote client (the consoles configure remote access
\* with SecurityPolicy::read_write): a reader of its own on the record's cell
RemoteSubscribe(r) ==
    /\ phase = "running"
    /\ asm \in Consoles
    /\ sub.pc = "idle"
    /\ sub' = [pc |-> "subscribed", rec |-> r, cur |-> cell[r].written,
               seen |-> <<>>]
    /\ last' = NoStep
    /\ UNCHANGED <<asm, reg, sending, built, phase, cell, out, mon, sent, log, events,
                   writes>>

\* The remote subscriber's reader yields its next entry
RemoteRecv ==
    /\ phase = "running"
    /\ sub.pc = "subscribed"
    /\ CanRecv(cell[sub.rec], sub.cur)
    /\ LET e == Recv(cell[sub.rec], sub.cur)
       IN  sub' = [sub EXCEPT !.cur = e.seq, !.seen = Append(@, e.seq)]
    /\ last' = NoStep
    /\ UNCHANGED <<asm, reg, sending, built, phase, cell, out, mon, sent, log, events,
                   writes>>

\* main() of a console returns: tokio::signal::ctrl_c().await completes, with
\* the signal or with an error, and main() leaves, which ends the runtime and
\* the tasks of the bindings with it
Shutdown ==
    /\ asm \in Consoles
    /\ phase = "running"
    /\ phase' = "stopped"
    /\ last' = [kind |-> "shutdown"]
    /\ UNCHANGED <<asm, sub, reg, sending, built, cell, out, mon, sent, log, events,
                   writes>>

HasInbound(a) == {r \in Registered(a) : RecordsOf(a)[r].inbound # None}
HasOutbound(a) == {r \in Registered(a) : RecordsOf(a)[r].outbound # None}
RemoteWritable(a) == {r \in Registered(a) : RecordsOf(a)[r].remoteWrite}

EncOutcomes(a, r) == IF UsesDptEncoder(a, r) THEN BOOLEAN ELSE {TRUE}

\* A gateway registers a tap for every record, configures no remote access and
\* never leaves main(); a console registers no tap, lets remote clients write
\* one record and leaves main() on Ctrl+C
Next ==
    \/ Configure
    \/ \E ok \in BOOLEAN : Build(ok)
    \/ \E r \in HasInbound(asm) :
          \E data \in Payloads(RecordsOf(asm)[r].inbound.ep) : Deliver(r, data)
    \/ \E r \in RemoteWritable(asm) : \E v \in RemoteValues : RemoteWrite(r, v)
    \/ \E r \in HasOutbound(asm) : \E encOk \in EncOutcomes(asm, r) : Publish(r, encOk)
    \/ \E r \in HasOutbound(asm) : SendDone(r)
    \/ \E r \in Registered(asm) : \E ok \in BOOLEAN : MonitorSubscribe(r, ok)
    \/ \E r \in Registered(asm) : MonitorRecv(r)
    \/ \E r \in Registered(asm) : MonitorRecvErr(r)
    \/ \E r \in RemoteSubscribable(asm) : RemoteSubscribe(r)
    \/ RemoteRecv
    \/ Shutdown

SpecRecords == InitRecords /\ [][Next]_vars

SpecInline == InitInline /\ [][Next]_vars

\* The four assemblies
SpecBridges == (\E a \in Assemblies : InitBridge(a)) /\ [][Next]_vars

(***************************************************************************)
(* Codec calls: the codecs applied, outside any bridge, to inputs drawn    *)
(* from bounded sets.  The initial state holds the call, the step applies  *)
(* the codec and holds what it returned.                                   *)
(***************************************************************************)
StrUnit == <<"u", "n", "i", "t">>
StrNote == <<"n", "o", "t", "e">>

\* The text of one member.  "unit" and "note" are keys no record defines; the
\* value of "note" is the string  x,is_on:true,y
MemberText(k, on) ==
    CASE k = "address" -> JsonPair(StrAddress, Quoted(Addr107))
      [] k = "is_on" -> JsonPair(StrIsOn, FormatBool(on))
      [] k = "timestamp" -> JsonPair(StrTimestamp, <<"4", "2">>)
      [] k = "celsius" -> JsonPair(StrCelsius, <<"2", "1", ".", "5", "0">>)
      [] k = "unit" -> JsonPair(StrUnit, <<"1">>)
      [] k = "note" -> JsonPair(StrNote, Quoted(<<"x", ",">> \o StrIsOn
                                                \o <<":">> \o StrTrue \o <<",", "y">>))

RECURSIVE JoinMembers(_, _)
JoinMembers(keys, on) ==
    IF keys = <<>> THEN <<>>
    ELSE MemberText(Head(keys), on)
            \o (IF Len(keys) > 1 THEN <<",">> ELSE <<>>)
            \o JoinMembers(Tail(keys), on)

\* The flat object with the members of keys, in that order
ObjectText(keys, on) == <<"{">> \o JoinMembers(keys, on) \o <<"}">>

SwitchFields == <<"address", "is_on", "timestamp">>

TempFields == <<"address", "celsius", "timestamp">>

Range(s) == {s[i] : i \in 1..Len(s)}

\* The sequences without repetition over the members of a set
Orders(S) ==
    {s \in UNION {[1..n -> S] : n \in 0..Cardinality(S)} :
        \A i, j \in 1..Len(s) : i # j => s[i] # s[j]}

\* The members of keys in the order of the record's declaration
Canonical(fields, keys) ==
    LET n == Cardinality(Range(keys))
    IN  CHOOSE s \in [1..n -> Range(keys)] :
            /\ Range(s) = Range(keys)
            /\ \A i, j \in 1..n :
                  i < j => \E a, b \in 1..Len(fields) :
                              a < b /\ fields[a] = s[i] /\ fields[b] = s[j]

\* A payload with an unknown key added: none, "unit" in front, "unit" at the
\* back, "note" at the back
Extras == {"none", "unit_front", "unit_back", "note_back"}

WithExtra(keys, extra) ==
    CASE extra = "none" -> keys
      [] extra = "unit_front" -> <<"unit">> \o keys
      [] extra = "unit_back" -> Append(keys, "unit")
      [] extra = "note_back" -> Append(keys, "note")

SwitchDecoders ==
    {"deserialize_state_nostd", "deserialize_control_nostd",
     "deserialize_state_std", "deserialize_control_std"}

TempDecoders == {"deserialize_temp_nostd", "deserialize_temp_std"}

TextDecoders == SwitchDecoders \union TempDecoders

StdDecoders == {"deserialize_state_std", "deserialize_control_std", "deserialize_temp_std"}

FieldsOf(fn) == IF fn \in SwitchDecoders THEN SwitchFields ELSE TempFields

TextDecode(fn, data) ==
    IF fn = "deserialize_state_nostd" THEN deserialize_state_nostd(data)
    ELSE IF fn = "deserialize_control_nostd" THEN deserialize_control_nostd(data)
    ELSE IF fn = "deserialize_temp_nostd" THEN deserialize_temp_nostd(data)
    ELSE IF fn = "deserialize_state_std" THEN deserialize_state_std(data)
    ELSE IF fn = "deserialize_control_std" THEN deserialize_control_std(data)
    ELSE deserialize_temp_std(data)

TextDecodeCalls ==
    UNION {{[kind |-> "call", op |-> "text_decode", fn |-> fn, keys |-> ks,
             extra |-> x, on |-> b] :
                ks \in Orders(Range(FieldsOf(fn))), x \in Extras, b \in BOOLEAN} :
           fn \in TextDecoders}

\* Addresses over digits and '/', up to the capacity of 16 characters
RoundTripAddresses ==
    {<<>>, <<"0">>, Addr107, Addr106,
     <<"3", "1", "/", "7", "/", "2", "5", "5", "/", "/", "0", "1", "2", "3", "4", "5">>}

RoundTripTimestamps == {0, 42, 999999999}

TextCodecs == {"state_nostd", "control_nostd", "state_std", "control_std"}

TextEncode(c, v) ==
    IF c = "state_nostd" THEN serialize_state_nostd(v)
    ELSE IF c = "control_nostd" THEN serialize_control_nostd(v)
    ELSE IF c = "state_std" THEN serialize_state_std(v)
    ELSE serialize_control_std(v)

TextDecodeOf(c, data) ==
    IF c = "state_nostd" THEN deserialize_state_nostd(data)
    ELSE IF c = "control_nostd" THEN deserialize_control_nostd(data)
    ELSE IF c = "state_std" THEN deserialize_state_std(data)
    ELSE deserialize_control_std(data)

TextRoundTripCalls ==
    {[kind |-> "call", op |-> "text_round_trip", codec |-> c,
      val |-> Switch(a, b, ts)] :
        c \in TextCodecs, a \in RoundTripAddresses, b \in BOOLEAN,
        ts \in RoundTripTimestamps}

BusRoundTripCalls ==
    {[kind |-> "call", op |-> "bus_round_trip", val |-> Switch(Addr106, b, 0)] :
        b \in BOOLEAN}

BusDecodeCalls ==
    {[kind |-> "call", op |-> "bus_decode", data |-> <<x>>] : x \in Bytes}
        \union {[kind |-> "call", op |-> "bus_decode", data |-> d] :
                    d \in BusSwitchPayloads}

\* Temperatures the two-byte format represents, in hundredths: every value of
\* exponent 0 and, for each higher exponent, mantissas at and near the ends
Dpt9Mantissas == {-2048, -2047, -1025, -1, 1, 1025, 2046, 2047}

RepresentableTemperatures ==
    (-2048..2047) \union {m * Pow2(e) : m \in Dpt9Mantissas, e \in 1..15}

TempBusRoundTripCalls ==
    {[kind |-> "call", op |-> "temp_bus_round_trip", t |-> t] :
        t \in RepresentableTemperatures}

\* The textual decoders of the embedded build and of the console
EmbeddedDecoders ==
    {"deserialize_state_nostd", "deserialize_control_nostd", "deserialize_temp_nostd"}

ConsoleDecoders == {"switch_event_deserializer", "console_temperature_deserializer"}

PayloadDecoders == EmbeddedDecoders \union ConsoleDecoders

PayloadDecode(fn, data) ==
    IF fn = "deserialize_state_nostd" THEN deserialize_state_nostd(data)
    ELSE IF fn = "deserialize_control_nostd" THEN deserialize_control_nostd(data)
    ELSE IF fn = "deserialize_temp_nostd" THEN deserialize_temp_nostd(data)
    ELSE IF fn = "switch_event_deserializer" THEN switch_event_deserializer(data)
    ELSE console_temperature_deserializer(data)

\* Payloads that hold no member: empty, blank, text that is no object, an empty
\* object
MemberlessTexts ==
    {<<>>, <<" ">>, <<"h", "i">>, <<"4", "2">>, <<"{", "}">>, <<"[", "1", "]">>}

\* Payloads that are not valid UTF-8
InvalidTexts ==
    {<<BadByte>>, <<"{", BadByte, "}">>,
     <<"{">> \o JsonPair(StrIsOn, StrTrue) \o <<",", BadByte, "}">>}

\* Payloads the gateways and consoles publish, and the documented command
PublishedTexts ==
    {DocumentedCommand,
     FormatSwitchJson(StrAddress, Switch(Addr106, TRUE, 5)),
     FormatSwitchJson(StrGroupAddress, Switch(Addr107, TRUE, 7)),
     FormatTempJson(StrAddress, Temp(Addr910, Celsius(2150), 3)),
     FormatTempJson(StrGroupAddress, Temp(Addr910, Celsius(2150), 3))}

RawPayloads == MemberlessTexts \union InvalidTexts \union PublishedTexts

PayloadDecodeCalls ==
    {[kind |-> "call", op |-> "decode_payload", fn |-> fn, data |-> d] :
        fn \in PayloadDecoders, d \in RawPayloads}

\* What the outbound binding of the record makes of the value the inbound
\* binding decoded and wrote: of the decoders here only deserialize_control
\* feeds a record with an outbound binding, the gateway's SwitchControl
Publication(fn, res) ==
    IF fn = "deserialize_control_nostd" /\ res.ok
    THEN [ep |-> GroundRecords["SwitchControl"].outbound.ep,
          enc |-> Encode("ground", "SwitchControl", res.val, TRUE)]
    ELSE None

\* Two commands handed to the outbound binding of the gateway's SwitchControl
ControlPairCalls ==
    {[kind |-> "call", op |-> "control_pair", a |-> Switch(a1, b1, t1),
      b |-> Switch(a2, b2, t2)] :
        a1 \in RoundTripAddresses, a2 \in {<<>>, Addr106, Addr107},
        b1 \in BOOLEAN, b2 \in BOOLEAN,
        t1 \in RoundTripTimestamps, t2 \in {0, 42}}

\* A value encoded by one build and decoded by the other: the console's
\* command read by the gateway, the gateway's state read by the console
CrossBuildPaths == {"control_std_to_nostd", "state_nostd_to_std"}

CrossBuildCalls ==
    {[kind |-> "call", op |-> "cross_build", path |-> p, val |-> Switch(a, b, ts)] :
        p \in CrossBuildPaths, a \in RoundTripAddresses, b \in BOOLEAN,
        ts \in RoundTripTimestamps}

\* The key a decoder reads a field from: the console reads the address from
\* "group_address"
KeyText(fn, field) ==
    CASE field = "address" ->
            IF fn \in ConsoleDecoders THEN StrGroupAddress ELSE StrAddress
      [] field = "is_on" -> StrIsOn
      [] field = "celsius" -> StrCelsius
      [] field = "timestamp" -> StrTimestamp

DecodedFields(fn) ==
    IF fn \in {"deserialize_temp_nostd", "console_temperature_deserializer"}
    THEN {"address", "celsius", "timestamp"}
    ELSE {"address", "is_on", "timestamp"}

\* Value texts of a field
ValueTexts(field) ==
    CASE field = "address" ->
            {Quoted(Addr107), Quoted(Addr106),
             Quoted(<<"3", "1", "/", "7", "/", "2", "5", "5", "/", "1", "0", "0">>)}
      [] field = "is_on" -> {StrTrue, StrFalse}
      [] field = "celsius" -> {<<"2", "1", ".", "5", "0">>, <<"1", "9", ".", "0", "0">>}
      [] field = "timestamp" -> {<<"5">>, <<"7">>}

\* A payload that holds one key twice, with two different values
DuplicateKeyCalls ==
    UNION {UNION {{[kind |-> "call", op |-> "decode_duplicate", fn |-> fn,
                    field |-> f, first |-> pr[1], second |-> pr[2]] :
                      pr \in {x \in ValueTexts(f) \X ValueTexts(f) : x[1] # x[2]}} :
                  f \in DecodedFields(fn)} :
           fn \in PayloadDecoders}

\* Switch decoders among the decoders of the embedded build and of the console
SwitchPayloadDecoders ==
    {"deserialize_state_nostd", "deserialize_control_nostd", "switch_event_deserializer"}

Addr16 ==
    <<"3", "1", "/", "7", "/", "2", "5", "5", "/", "/", "0", "1", "2", "3", "4", "5">>

\* Address values: up to the capacity, one and four characters beyond it, and
\* one that holds a comma
AddressValues ==
    {<<>>, Addr106, Addr16, Addr16 \o <<"6">>, Addr16 \o <<"6", "7", "8", "9">>,
     <<"1", ",", "2">>}

\* Value texts of is_on: the literal true, bare and surrounded by whitespace,
\* the literal false, and texts that are neither
IsOnTexts ==
    {StrTrue, <<" ">> \o StrTrue \o <<" ", "\n">>, StrTrue \o <<"\r", "\n">>,
     <<"u00A0">> \o StrTrue, StrFalse, <<"1">>,
     <<"T", "r", "u", "e">>, Quoted(StrTrue), <<>>, StrTrue \o <<"x">>,
     <<"t", "r", " ", "u", "e">>}

\* A payload whose address or is_on member is given, with the other members of
\* the record after it
MemberCalls ==
    {[kind |-> "call", op |-> "decode_member", fn |-> fn, field |-> "address",
      value |-> a] : fn \in PayloadDecoders, a \in AddressValues}
        \union
    {[kind |-> "call", op |-> "decode_member", fn |-> fn, field |-> "is_on",
      value |-> v] : fn \in SwitchPayloadDecoders, v \in IsOnTexts}

\* {"address":"<value>","is_on":true,"timestamp":42} (celsius 21.50 for a
\* temperature), or {"is_on":<value>,"address":"1/0/6","timestamp":42}
MemberPayload(c) ==
    LET ak == KeyText(c.fn, "address")
        ts == JsonPair(StrTimestamp, <<"4", "2">>)
    IN  IF c.field = "address"
        THEN <<"{">> \o JsonPair(ak, Quoted(c.value)) \o <<",">>
                \o (IF c.fn \in SwitchPayloadDecoders
                    THEN JsonPair(StrIsOn, StrTrue)
                    ELSE JsonPair(StrCelsius, <<"2", "1", ".", "5", "0">>))
                \o <<",">> \o ts \o <<"}">>
        ELSE <<"{">> \o JsonPair(StrIsOn, c.value) \o <<",">>
                \o JsonPair(ak, Quoted(Addr106)) \o <<",">> \o ts \o <<"}">>

CodecCalls ==
    TextDecodeCalls \union TextRoundTripCalls \union BusRoundTripCalls
        \union BusDecodeCalls \union TempBusRoundTripCalls
        \union PayloadDecodeCalls \union ControlPairCalls \union CrossBuildCalls
        \union DuplicateKeyCalls \union MemberCalls

InitCodec ==
    /\ asm = "none"
    /\ reg = <<>>
    /\ built = "pending"
    /\ phase = "configuring"
    /\ sending = [r \in RecordIds |-> FALSE]
    /\ cell = [r \in RecordIds |-> EmptyCell]
    /\ out = [r \in RecordIds |-> 0]
    /\ mon = [r \in RecordIds |-> Idle]
    /\ sent = [r \in RecordIds |-> <<>>]
    /\ log = [r \in RecordIds |-> <<>>]
    /\ events = 0
    /\ writes = [r \in RecordIds |-> <<>>]
    /\ last \in CodecCalls
    /\ sub = NoSubscription

Called(op) == last.kind = "call" /\ last.op = op

Returned(op) == last.kind = "return" /\ last.op = op

\* A textual decoder applied to a payload and to the payload with the same
\* members in the order of declaration and no unknown key
CallTextDecode ==
    /\ Called("text_decode")
    /\ last' = [kind |-> "return", op |-> "text_decode", call |-> last,
                res |-> TextDecode(last.fn,
                            ObjectText(WithExtra(last.keys, last.extra), last.on)),
                base |-> TextDecode(last.fn,
                            ObjectText(Canonical(FieldsOf(last.fn), last.keys),
                                       last.on))]
    /\ UNCHANGED <<asm, sub, reg, sending, built, phase, cell, out, mon, sent, log, events, writes>>

\* A value encoded to text and the text decoded
CallTextRoundTrip ==
    /\ Called("text_round_trip")
    /\ LET enc == TextEncode(last.codec, last.val)
       IN  last' = [kind |-> "return", op |-> "text_round_trip", call |-> last,
                    enc |-> enc,
                    res |-> IF enc.ok THEN TextDecodeOf(last.codec, enc.val) ELSE enc]
    /\ UNCHANGED <<asm, sub, reg, sending, built, phase, cell, out, mon, sent, log, events, writes>>

\* A control encoded for the bus and the telegram decoded as a switch state
CallBusRoundTrip ==
    /\ Called("bus_round_trip")
    /\ LET enc == serialize_switch_control_to_knx(last.val, TRUE)
       IN  last' = [kind |-> "return", op |-> "bus_round_trip", call |-> last,
                    enc |-> enc,
                    res |-> IF enc.ok
                            THEN deserialize_switch_state_from_knx(enc.val, Addr107)
                            ELSE enc]
    /\ UNCHANGED <<asm, sub, reg, sending, built, phase, cell, out, mon, sent, log, events, writes>>

\* A bus payload decoded as a switch state
CallBusDecode ==
    /\ Called("bus_decode")
    /\ last' = [kind |-> "return", op |-> "bus_decode", call |-> last,
                res |-> deserialize_switch_state_from_knx(last.data, Addr107)]
    /\ UNCHANGED <<asm, sub, reg, sending, built, phase, cell, out, mon, sent, log, events, writes>>

\* A temperature encoded for the bus, the telegram decoded by the datapoint
\* decoder and by the gateway's inbound binding of knx://9/1/0
CallTempBusRoundTrip ==
    /\ Called("temp_bus_round_trip")
    /\ LET enc == Dpt9Encode(last.t)
       IN  last' = [kind |-> "return", op |-> "temp_bus_round_trip", call |-> last,
                    enc |-> enc, dec |-> Dpt9Decode(enc),
                    res |-> Decode("ground", "Temperature", enc)]
    /\ UNCHANGED <<asm, sub, reg, sending, built, phase, cell, out, mon, sent, log, events,
                   writes>>

\* A textual decoder applied to a payload as its inbound binding applies it
CallDecodePayload ==
    /\ Called("decode_payload")
    /\ LET res == PayloadDecode(last.fn, last.data)
       IN  last' = [kind |-> "return", op |-> "decode_payload", call |-> last,
                    res |-> res, pub |-> Publication(last.fn, res)]
    /\ UNCHANGED <<asm, sub, reg, sending, built, phase, cell, out, mon, sent, log, events,
                   writes>>

\* The outbound binding of the gateway's SwitchControl applied to two commands
CallControlPair ==
    /\ Called("control_pair")
    /\ last' = [kind |-> "return", op |-> "control_pair", call |-> last,
                a |-> Publication("deserialize_control_nostd", Ok(last.a)),
                b |-> Publication("deserialize_control_nostd", Ok(last.b))]
    /\ UNCHANGED <<asm, sub, reg, sending, built, phase, cell, out, mon, sent, log, events,
                   writes>>

\* serialize_control of the host build then deserialize_control of the embedded
\* build, or serialize_state of the embedded build then deserialize_state of the
\* host build
CallCrossBuild ==
    /\ Called("cross_build")
    /\ LET enc == IF last.path = "control_std_to_nostd"
                  THEN serialize_control_std(last.val)
                  ELSE serialize_state_nostd(last.val)
       IN  last' = [kind |-> "return", op |-> "cross_build", call |-> last,
                    enc |-> enc,
                    res |-> IF ~enc.ok THEN enc
                            ELSE IF last.path = "control_std_to_nostd"
                            THEN deserialize_control_nostd(enc.val)
                            ELSE deserialize_state_std(enc.val)]
    /\ UNCHANGED <<asm, sub, reg, sending, built, phase, cell, out, mon, sent, log, events,
                   writes>>

\* A textual decoder applied to a payload that holds a key twice, and to the
\* payload that holds only the second occurrence
CallDecodeDuplicate ==
    /\ Called("decode_duplicate")
    /\ LET k == KeyText(last.fn, last.field)
       IN  last' = [kind |-> "return", op |-> "decode_duplicate", call |-> last,
                    res |-> PayloadDecode(last.fn,
                                <<"{">> \o JsonPair(k, last.first) \o <<",">>
                                    \o JsonPair(k, last.second) \o <<"}">>),
                    base |-> PayloadDecode(last.fn,
                                <<"{">> \o JsonPair(k, last.second) \o <<"}">>)]
    /\ UNCHANGED <<asm, sub, reg, sending, built, phase, cell, out, mon, sent, log, events,
                   writes>>

\* A textual decoder applied to a payload with a given address or is_on member,
\* as its inbound binding applies it
CallDecodeMember ==
    /\ Called("decode_member")
    /\ LET res == PayloadDecode(last.fn, MemberPayload(last))
       IN  last' = [kind |-> "return", op |-> "decode_member", call |-> last,
                    res |-> res, pub |-> Publication(last.fn, res)]
    /\ UNCHANGED <<asm, sub, reg, sending, built, phase, cell, out, mon, sent, log, events,
                   writes>>

NextCodec ==
    \/ CallTempBusRoundTrip
    \/ CallTextDecode
    \/ CallTextRoundTrip
    \/ CallBusRoundTrip
    \/ CallBusDecode
    \/ CallDecodePayload
    \/ CallControlPair
    \/ CallCrossBuild
    \/ CallDecodeDuplicate
    \/ CallDecodeMember

SpecCodec == InitCodec /\ [][NextCodec]_vars

(***************************************************************************)
(* Properties                                                              *)
(***************************************************************************)
\* The datapoint decoder of an inbound bus binding of the gateway
DatapointDecode(r, data) ==
    IF r = "Temperature" THEN Dpt9Decode(data) ELSE Dpt1Decode(data)

\* The records a gateway binds to the bus endpoints knx://1/0/7 and knx://9/1/0
BusRecords(a) ==
    IF a = "ground" THEN {"SwitchState", "Temperature"}
    ELSE IF a = "knx_gateway" THEN {"LightState", "Temperature"}
    ELSE {}

\* The step is a delivery to record r
Delivery(r) ==
    /\ events' = events + 1
    /\ last'.kind = "deliver"
    /\ last'.rec = r

\* C1: on the gateway, a delivery to a bus binding (knx://1/0/7 -> SwitchState,
\* knx://9/1/0 -> Temperature) whose payload the datapoint decoder rejects is
\* answered with an error, writes nothing, and leaves the cell as it was.
C1_RejectedPayloadLeavesCell ==
    [][\A r \in BusRecords(asm) :
          (Delivery(r) /\ ~DatapointDecode(r, last'.data).ok)
              => (~last'.ok /\ cell'[r] = cell[r])]_vars

\* {"address":"1/0/7","is_on":true,"timestamp":0}
StateOnText ==
    <<"{">> \o JsonPair(StrAddress, Quoted(Addr107)) \o <<",">>
        \o JsonPair(StrIsOn, StrTrue) \o <<",">>
        \o JsonPair(StrTimestamp, <<"0">>) \o <<"}">>

ValueLines(r) == SelectSeq(log[r], LAMBDA e : e.kind = "value")

\* The one write the SwitchState cell has seen is that of the telegram 0x01
\* (no other payload decodes to is_on = true)
FirstTelegramOn ==
    /\ asm = "ground"
    /\ cell["SwitchState"].written = 1
    /\ Latest(cell["SwitchState"]).is_on

ExpectedValue(fn, keys, on) ==
    LET has(k) == k \in Range(keys)
    IN  IF fn \in SwitchDecoders
        THEN Switch(IF has("address") THEN Addr107 ELSE <<>>,
                    has("is_on") /\ on,
                    IF has("timestamp") THEN 42 ELSE 0)
        ELSE Temp(IF has("address") THEN Addr107 ELSE <<>>,
                  Celsius(IF has("celsius") THEN 2150 ELSE 0),
                  IF has("timestamp") THEN 42 ELSE 0)

\* C3: every textual decoder of the records crate, host build and embedded
\* build, decodes a payload that lacks fields of the record successfully, the
\* missing fields at their zero value (empty address, false, 0) and the present
\* fields preserved.
C3_MissingFieldsDefault ==
    (/\ Returned("text_decode")
     /\ last.call.extra = "none"
     /\ Len(last.call.keys) < Len(FieldsOf(last.call.fn)))
        => /\ last.res.ok
           /\ last.res.val = ExpectedValue(last.call.fn, last.call.keys, last.call.on)

\* C4: a textual decoder decodes every permutation of a flat payload of the
\* record's keys, and every extension of it by unknown keys, successfully and
\* to the value the payload itself decodes to.
C4_OrderAndUnknownKeys ==
    Returned("text_decode")
        => /\ last.base.ok
           /\ last.res.ok
           /\ last.res.val = last.base.val

\* C5: for a SwitchState or SwitchControl whose address is a string over digits
\* and '/' of at most 16 characters, either is_on and a timestamp of the bounded
\* set, decoding the text the record's encoder produced succeeds and yields the
\* address, is_on and timestamp of the original.
C5_TextRoundTrip ==
    Returned("text_round_trip")
        => /\ last.enc.ok
           /\ last.res.ok
           /\ last.res.val.address = last.call.val.address
           /\ last.res.val.is_on = last.call.val.is_on
           /\ last.res.val.timestamp = last.call.val.timestamp

\* C5 witness: the embedded codec has round-tripped a state with an address of
\* 16 characters, is_on true and the largest timestamp
C5_LongAddressRoundTripped ==
    /\ Returned("text_round_trip")
    /\ last.call.codec = "state_nostd"
    /\ Len(last.call.val.address) = AddrCapacity
    /\ last.call.val.is_on
    /\ last.call.val.timestamp = 999999999
    /\ last.res.ok
    /\ last.res.val = last.call.val

\* C6: a SwitchControl with is_on = b is encoded for the bus as exactly 1 byte
\* whose least-significant bit is b and whose other bits are 0, and the switch
\* state decoder reads is_on = b from it; of a 1-byte payload the decoder reads
\* the least-significant bit and nothing else.
C6_BoolBusRoundTrip ==
    /\ Returned("bus_round_trip")
          => /\ last.enc.ok
             /\ last.enc.val = <<IF last.call.val.is_on THEN 1 ELSE 0>>
             /\ last.res.ok
             /\ last.res.val.is_on = last.call.val.is_on
    /\ (Returned("bus_decode") /\ Len(last.call.data) = 1)
          => /\ last.res.ok
             /\ last.res.val.is_on = (last.call.data[1] % 2 = 1)

\* C6 witness: is_on = true went to the bus as 0x01 and came back as true
C6_OnRoundTripped ==
    /\ Returned("bus_round_trip")
    /\ last.call.val.is_on
    /\ last.enc.val = <<1>>
    /\ last.res.val.is_on

\* The records the bridges are to keep in latest-value cells: all three on the
\* gateway, SwitchState and Temperature on the console
LatestRecords(a) ==
    IF a = "ground" THEN {"SwitchState", "Temperature", "SwitchControl"}
    ELSE IF a = "tower" THEN {"SwitchState", "Temperature"}
    ELSE {}

\* The record the console is to keep in a ring
RingRecords(a) == IF a = "tower" THEN {"SwitchControl"} ELSE {}

\* The step writes a value to the cell of record r
WriteTo(r) == Len(writes'[r]) = Len(writes[r]) + 1

\* C7: the cell of a record registered with the latest-value policy holds, after
\* every write, exactly the value written last, and a read by any reader
\* returns it; a step that is no write to the cell leaves it as it is.
C7_LatestValueOverwrites ==
    [][\A r \in LatestRecords(asm) :
          IF WriteTo(r)
          THEN LET vn == writes'[r][Len(writes'[r])]
               IN  /\ Len(cell'[r].buf) = 1
                   /\ Latest(cell'[r]) = vn
                   /\ \A cur \in 0..Len(writes[r]) : Recv(cell'[r], cur).val = vn
          ELSE cell'[r] = cell[r]]_vars

\* C7 witness: the gateway's SwitchState cell was written true, that value was
\* published, and a second write left false as the one value of the cell
C7_SecondWriteReplacedFirst ==
    /\ asm = "ground"
    /\ Len(writes["SwitchState"]) = 2
    /\ writes["SwitchState"][1].is_on
    /\ Len(cell["SwitchState"].buf) = 1
    /\ ~Latest(cell["SwitchState"]).is_on

\* Every publish so far happened after the last write
ReadAfterWrites(r) ==
    \A i \in 1..Len(sent[r]) : sent[r][i].at = Len(writes[r])

\* C8: the ring of capacity N behind the console's SwitchControl record, after
\* N + k writes (k > 0) with no read in between, gives its subscriber the last N
\* values written, in the order written, each once: the earliest k are dropped.
C8_RingKeepsLastN ==
    \A r \in RingRecords(asm) :
        LET W == Len(writes[r])
        IN  (W > RingCapacity /\ ReadAfterWrites(r)) =>
                /\ Len(sent[r]) <= RingCapacity
                /\ \A i \in 1..Len(sent[r]) :
                      /\ sent[r][i].seq = W - RingCapacity + i
                      /\ sent[r][i].bytes
                            = Encode(asm, r, writes[r][W - RingCapacity + i], TRUE).val
                /\ out[r] = W => Len(sent[r]) = RingCapacity
                /\ (out[r] < W /\ ~sending[r] /\ phase = "running")
                      => ENABLED Publish(r, TRUE)

\* C8 witness: the ring took one write more than it holds and was then drained
C8_OverrunRingDrained ==
    /\ asm = "tower"
    /\ Len(writes["SwitchControl"]) = RingCapacity + 1
    /\ ReadAfterWrites("SwitchControl")
    /\ out["SwitchControl"] = RingCapacity + 1
    /\ Len(sent["SwitchControl"]) = RingCapacity

\* The step is the outbound binding of r taking a value whose encoder fails
FailedEncode(r) ==
    /\ out'[r] # out[r]
    /\ last'.kind = "publish"
    /\ last'.rec = r
    /\ ~last'.encOk

\* C9: when the encoder of an outbound binding fails for a value, nothing is
\* handed to the connector for that value, not even an empty telegram, and the
\* cell is unchanged; this holds for the binding to knx://1/0/6 when the
\* DPT 1.001 encoder fails.
C9_FailedEncodeSendsNothing ==
    [][\A r \in HasOutbound(asm) :
          FailedEncode(r) => (sent'[r] = sent[r] /\ cell' = cell)]_vars

Inactive ==
    /\ \A r \in RecordIds :
          /\ cell[r] = EmptyCell
          /\ writes[r] = <<>>
          /\ sent[r] = <<>>
          /\ log[r] = <<>>
          /\ mon[r] = Idle
          /\ out[r] = 0
    /\ events = 0

\* C10: when the build of the bridge fails, startup aborts (the gateway panics,
\* the console's main returns) and no inbound binding, outbound binding or
\* monitor of any record is or becomes active; nothing is active before the
\* build either.
C10_AssemblyAllOrNothing ==
    /\ built = "failed" =>
          /\ phase \in {"panicked", "exited"}
          /\ Inactive
          /\ ~ENABLED Next
    /\ built = "pending" => Inactive
    /\ phase = "running" => built = "ok"

\* C10 witness: the build of the gateway failed and main() panicked
C10_BuildFailed ==
    /\ asm = "ground"
    /\ built = "failed"
    /\ phase = "panicked"
    /\ last = [kind |-> "build", ok |-> FALSE]

\* C11: no error of the bridge is a process panic: a failed build, on the
\* console and on the gateway alike, ends in an error value returned to the top
\* level, and no reachable state of either program is a panic.
C11_NoPanic ==
    /\ phase # "panicked"
    /\ built = "failed" => phase = "exited"

\* The link_from calls made for r so far
InboundBindings(r) ==
    {i \in 1..Len(reg) : reg[i].rec = r /\ reg[i].op = "link_from"}

\* The step is one of an outbound binding or of a monitor
ReaderStep ==
    \/ out' # out
    \/ sending' # sending
    \/ sent' # sent
    \/ mon' # mon
    \/ log' # log

\* C12: each record of any assembly has at most one inbound binding,
\* the only actor that changes the content of a record's cell is that record's
\* inbound decode path, and the steps of encoders and monitors leave every cell
\* unchanged.
C12_OnlyInboundWrites ==
    [][/\ \A r \in RecordIds :
            /\ Cardinality(InboundBindings(r)) <= 1
            /\ cell'[r] # cell[r] => Delivery(r)
       /\ ReaderStep => cell' = cell]_vars

\* The positions, in the order of the writes to r, of what the outbound binding
\* of r handed to its connector and of what the monitor of r logged
SentSeqs(r) == [i \in 1..Len(sent[r]) |-> sent[r][i].seq]

LoggedSeqs(r) == [i \in 1..Len(ValueLines(r)) |-> ValueLines(r)[i].seq]

\* What the serializer of the outbound binding of r can return for v
Encodings(r, v) ==
    {e.val : e \in {x \in {Encode(asm, r, v, ok) : ok \in EncOutcomes(asm, r)} :
                        x.ok}}

Increasing(s) == \A i, j \in 1..Len(s) : i < j => s[i] < s[j]

\* C13: per cell, what each outbound binding publishes and what each monitor
\* logs appears in the order of the writes to the cell: each is the value of one
\* write, and a value written earlier is never published or logged after a
\* value written later.
C13_PerCellFifo ==
    \A r \in Registered(asm) :
        /\ Increasing(SentSeqs(r))
        /\ Increasing(LoggedSeqs(r))
        /\ \A i \in 1..Len(sent[r]) :
              /\ sent[r][i].seq \in 1..Len(writes[r])
              /\ sent[r][i].bytes \in Encodings(r, writes[r][sent[r][i].seq])
        /\ \A i \in 1..Len(ValueLines(r)) :
              /\ ValueLines(r)[i].seq \in 1..Len(writes[r])
              /\ ValueLines(r)[i].line
                    = MonitorLine(writes[r][ValueLines(r)[i].seq])

\* C13 witness: the gateway published and logged two different values of
\* SwitchState, the first write first
C13_TwoValuesInOrder ==
    /\ asm = "ground"
    /\ Len(writes["SwitchState"]) = 2
    /\ writes["SwitchState"][1] # writes["SwitchState"][2]
    /\ SentSeqs("SwitchState") = <<1, 2>>
    /\ LoggedSeqs("SwitchState") = <<1, 2>>

\* The capacity each record's cell is registered with: BufferCfg::SingleLatest
\* holds one value, BufferCfg::SpmcRing { capacity } holds capacity values
RegisteredCapacity(a, r) ==
    IF (a = "tower" /\ r = "SwitchControl") \/ (a = "console" /\ r = "SwitchEvent")
    THEN RingCapacity
    ELSE 1

\* The step is a write to r: a delivery its inbound binding decoded, or a write
\* of a remote client
DecodedDelivery(r) == Delivery(r) /\ last'.ok

\* The step is a write of a remote client to r
RemoteWriteTo(r) ==
    /\ events' = events + 1
    /\ last'.kind = "remote_write"
    /\ last'.rec = r

\* The value the step writes to r
Written(r) ==
    IF last'.kind = "deliver" THEN Deserialized[asm][r][last'.data].val ELSE last'.val

\* A running bridge whose run has events left (a run of the model ends after
\* MaxEvents deliveries and remote writes)
Accepting == phase = "running" /\ events < MaxEvents(asm)

\* C14: the writer never blocks.  On all four assemblies and for both buffer
\* policies, whether a payload can be delivered to an inbound binding (and a
\* remote client can write the console's ring) depends on nothing but the bridge
\* running: not on the subscribers, their lag, the fill of the cell or a send in
\* flight.  A write completes in its step: the cell counts it, its value is the
\* cell's latest, a full cell holds as many values as before, and no cursor of
\* a reader and no send move.  No cell ever holds more than the capacity it was
\* registered with.
C14_WriterNeverBlocks ==
    /\ [](/\ \A r \in Registered(asm) :
               /\ Len(cell[r].buf) <= RegisteredCapacity(asm, r)
               /\ cell[r].written = Len(writes[r])
               /\ writes[r] # <<>> => Latest(cell[r]) = writes[r][Len(writes[r])]
          /\ \A r \in HasInbound(asm) :
               \A data \in Payloads(RecordsOf(asm)[r].inbound.ep) :
                   (ENABLED Deliver(r, data)) <=> Accepting
          /\ \A r \in RemoteWritable(asm) :
               \A v \in RemoteValues : (ENABLED RemoteWrite(r, v)) <=> Accepting)
    /\ [][\A r \in Registered(asm) :
            (DecodedDelivery(r) \/ RemoteWriteTo(r)) =>
                /\ cell'[r].written = cell[r].written + 1
                /\ Latest(cell'[r]) = Written(r)
                /\ Len(cell'[r].buf)
                      = IF Len(cell[r].buf) < RegisteredCapacity(asm, r)
                        THEN Len(cell[r].buf) + 1
                        ELSE RegisteredCapacity(asm, r)
                /\ \A r2 \in Registered(asm) \ {r} : cell'[r2] = cell[r2]
                /\ UNCHANGED <<out, sending, sent, mon, sub, phase>>]_vars

\* C14 witness: the inbound binding of the console's SwitchEvent decoded and
\* wrote one payload more than the ring holds while a remote subscriber of the
\* ring had read none: the ring is full and the subscriber's next entry is gone
C14_DeliveredToFullRing ==
    /\ asm = "console"
    /\ last.kind = "deliver"
    /\ last.rec = "SwitchEvent"
    /\ last.ok
    /\ cell["SwitchEvent"].written = RingCapacity + 1
    /\ Len(cell["SwitchEvent"].buf) = RingCapacity
    /\ sub.pc = "subscribed"
    /\ sub.rec = "SwitchEvent"
    /\ sub.cur = 0

\* The gateway's records with an inbound binding from the bus, and the payloads
\* of each
BusInbound == {"SwitchState", "Temperature"}

BusPayloads(r) == IF r = "SwitchState" THEN BusSwitchPayloads ELSE BusTempPayloads

\* C15: the suspension of an outbound publish is local.  While the outbound
\* binding of one record of the gateway is suspended in the connector's send,
\* the inbound binding of that record still decodes and writes, its monitor
\* still receives what it has not seen, and the bindings of every other record
\* still take and publish what they have not seen.
C15_SuspensionIsLocal ==
    (asm = "ground" /\ phase = "running") =>
        \A r \in {"SwitchState", "Temperature", "SwitchControl"} :
            sending[r] =>
                /\ (r \in BusInbound /\ events < MaxEvents(asm)) =>
                      \A data \in BusPayloads(r) : ENABLED Deliver(r, data)
                /\ (mon[r].pc = "subscribed" /\ CanRecv(cell[r], mon[r].cur)) =>
                      ENABLED MonitorRecv(r)
                /\ \A r2 \in {"SwitchState", "Temperature", "SwitchControl"} \ {r} :
                      /\ (~sending[r2] /\ CanRecv(cell[r2], out[r2])) =>
                            ENABLED Publish(r2, TRUE)
                      /\ (r2 \in BusInbound /\ events < MaxEvents(asm)) =>
                            \A data \in BusPayloads(r2) : ENABLED Deliver(r2, data)
                      /\ (mon[r2].pc = "subscribed" /\ CanRecv(cell[r2], mon[r2].cur))
                            => ENABLED MonitorRecv(r2)

\* C15 witness: the publish of the first value of SwitchState, taken when the
\* cell had one write, is still in flight, and since then a second value was
\* written to SwitchState and logged by its monitor
C15_ProgressDuringSend ==
    /\ asm = "ground"
    /\ sending["SwitchState"]
    /\ SentSeqs("SwitchState") = <<1>>
    /\ sent["SwitchState"][1].at = 1
    /\ Len(writes["SwitchState"]) = 2
    /\ LoggedSeqs("SwitchState") = <<1, 2>>

\* The one write the gateway's SwitchControl cell has seen is that of the
\* documented command (no other payload decodes to an empty address)
FirstCommandDocumented ==
    /\ asm = "ground"
    /\ cell["SwitchControl"].written = 1
    /\ writes["SwitchControl"] = <<Switch(<<>>, TRUE, 0)>>

\* C16: when the documented command {"group_address":"1/0/6","is_on":true} is
\* published to knx/lights/control, the gateway decodes it without error and
\* writes a SwitchControl with is_on = true; its outbound binding sends the
\* telegram to knx://1/0/6 with the one payload byte 0x01, exactly once: it is
\* able to while it has not, it has once the encoder returned, and never does
\* twice.
C16_DocumentedCommandSwitchesOn ==
    /\ (asm = "ground" /\ last.kind = "deliver" /\ last.rec = "SwitchControl"
        /\ last.data = DocumentedCommand)
          => (last.ok /\ Latest(cell["SwitchControl"]).is_on)
    /\ FirstCommandDocumented =>
          /\ Latest(cell["SwitchControl"]).is_on
          /\ Len(sent["SwitchControl"]) <= 1
          /\ \A i \in 1..Len(sent["SwitchControl"]) :
                /\ sent["SwitchControl"][i].ep = "knx://1/0/6"
                /\ sent["SwitchControl"][i].bytes = <<1>>
          /\ out["SwitchControl"] = 0 => ENABLED Publish("SwitchControl", TRUE)
          /\ (last.kind = "publish" /\ last.rec = "SwitchControl" /\ last.encOk)
                => Len(sent["SwitchControl"]) = 1

\* C16 witness: the documented command was delivered and its telegram sent
C16_CommandTelegramSent ==
    /\ FirstCommandDocumented
    /\ out["SwitchControl"] = 1
    /\ Len(sent["SwitchControl"]) = 1
    /\ sent["SwitchControl"][1].ep = "knx://1/0/6"
    /\ sent["SwitchControl"][1].bytes = <<1>>

\* C17: for every temperature t the two-byte bus format represents (in
\* hundredths of a degree), decoding the encoding of t yields a value within one
\* resolution step of t, and the value the bus inbound binding stores in the
\* Temperature record is that decoded value: the float nearest to it, which lies
\* within the step of the format at t's exponent.
C17_TemperatureBusRoundTrip ==
    Returned("temp_bus_round_trip") =>
        /\ Len(last.enc) = 2
        /\ last.dec.ok
        /\ Abs(last.dec.val - last.call.t) <= Dpt9Resolution
        /\ last.res.ok
        /\ last.res.val.celsius = Celsius(last.dec.val)
        /\ Abs(Centi(last.res.val.celsius) - last.call.t)
              <= Pow2((last.enc[1] \div 8) % 16)
        /\ last.res.val.address = Addr910

\* C17 witness: -5.55 degrees went through the codec and the binding
C17_FractionalDegreesRoundTripped ==
    /\ Returned("temp_bus_round_trip")
    /\ last.call.t = -555
    /\ last.dec = Ok(-555)
    /\ last.res.val.celsius = Celsius(-555)

\* The records of each assembly with an inbound binding of a textual endpoint
TextInbound(a) ==
    CASE a = "ground" -> {"SwitchControl"}
      [] a = "knx_gateway" -> {"LightControl"}
      [] a = "tower" -> {"SwitchState", "Temperature"}
      [] a = "console" -> {"SwitchEvent", "Temperature"}

\* C18: an error stays inside its binding.  A payload that is not valid UTF-8
\* fails to decode; the delivery of a payload that fails to decode changes
\* nothing but the count of deliveries: the bridge keeps running and no cell, no
\* binding and no monitor of any record changes state; and the next valid
\* payload delivered to the same binding is decoded and written.
C18_ErrorsStayInBinding ==
    [][\A r \in TextInbound(asm) :
          /\ (Delivery(r) /\ last'.data = <<BadByte>>) => ~last'.ok
          /\ (Delivery(r) /\ ~last'.ok) =>
                /\ phase' = "running"
                /\ UNCHANGED <<reg, built, phase, cell, out, mon, sending, sent, log,
                               writes, sub>>
          /\ (last.kind = "deliver" /\ last.rec = r /\ ~last.ok /\ Delivery(r)
              /\ Deserialized[asm][r][last'.data].ok) =>
                /\ last'.ok
                /\ Len(writes'[r]) = Len(writes[r]) + 1
                /\ Latest(cell'[r]) = writes'[r][Len(writes'[r])]
                /\ \A r2 \in RecordIds \ {r} : cell'[r2] = cell[r2]]_vars

\* C18 witness: the gateway's control binding was given a payload that is not
\* UTF-8 and then the documented command, which it decoded and wrote
C18_ValidAfterInvalid ==
    /\ asm = "ground"
    /\ events = 2
    /\ last = [kind |-> "deliver", rec |-> "SwitchControl",
               data |-> DocumentedCommand, ok |-> TRUE]
    /\ writes["SwitchControl"] = <<Switch(<<>>, TRUE, 0)>>
    /\ writes["SwitchState"] = <<>>
    /\ writes["Temperature"] = <<>>

\* The positions in reg of the calls op made for r
CallsOf(r, op) == {i \in 1..Len(reg) : reg[i].rec = r /\ reg[i].op = op}

LinkCalls(r) == CallsOf(r, "link_from") \union CallsOf(r, "link_to")

\* The link bindings main() registers for each record of the gateway
GroundLinks == {"link_from", "link_to"}

\* Every link binding the gateway gives r is registered
AllLinksRegistered(r) == \A op \in GroundLinks : CallsOf(r, op) # {}

\* The cell of r is created before every other call made for r
BufferFirst(r) ==
    LET buffers == CallsOf(r, "buffer")
        others  == LinkCalls(r) \union CallsOf(r, "tap")
    IN  \A i \in others : \E j \in buffers : j < i

\* C19 as stated: for every record the creation of its buffer cell happens
\* before the registration of any link binding, and the registration of all of
\* its link bindings happens before its monitor is attached; nothing is attached
\* or registered while the cell does not exist.
C19_BuffersThenLinksThenMonitor ==
    asm = "ground" =>
        \A r \in {"SwitchState", "Temperature", "SwitchControl"} :
            /\ BufferFirst(r)
            /\ CallsOf(r, "tap") # {} => AllLinksRegistered(r)

\* The step is a registrar call made for r
Registers(r, op) ==
    /\ Len(reg') = Len(reg) + 1
    /\ reg'[Len(reg')] = [rec |-> r, op |-> op]

\* C19 amended: for every record the creation of its buffer cell happens before
\* the registration of its monitor and of any link binding; the monitor is
\* registered (tap) before the link bindings, and it is started and subscribes
\* to the cell only after all link bindings of the record are registered, once
\* the bridge is built; nothing is registered while the cell does not exist.
C19_BufferFirstSubscribeLast ==
    [][asm = "ground" =>
        \A r \in {"SwitchState", "Temperature", "SwitchControl"} :
            /\ Registers(r, "buffer") =>
                  CallsOf(r, "tap") \union LinkCalls(r) = {}
            /\ Registers(r, "tap") =>
                  CallsOf(r, "buffer") # {} /\ LinkCalls(r) = {}
            /\ (Registers(r, "link_from") \/ Registers(r, "link_to")) =>
                  CallsOf(r, "buffer") # {} /\ CallsOf(r, "tap") # {}
            /\ mon'[r] # mon[r] =>
                  /\ AllLinksRegistered(r)
                  /\ CallsOf(r, "tap") # {}
                  /\ built' = "ok"
                  /\ reg' = reg]_vars

\* C19 witness: the monitor of SwitchState subscribed in the built gateway,
\* whose first four registrar calls were buffer, tap, link_from, link_to
C19_RegisteredThenSubscribed ==
    /\ asm = "ground"
    /\ built = "ok"
    /\ mon["SwitchState"].pc = "subscribed"
    /\ [i \in 1..4 |-> reg[i]]
          = [i \in 1..4 |->
                [rec |-> "SwitchState",
                 op |-> <<"buffer", "tap", "link_from", "link_to">>[i]]]

\* The monitor of r logged an error
LoggedError(r) == \E i \in 1..Len(log[r]) : log[r][i].kind = "error"

\* C20: monitors fail open.  A monitor whose subscribe fails logs one error and
\* ends: its log is the line of its start and that one error, never a value, it
\* neither subscribes
\* again nor receives, and the cell and the inbound and outbound bindings of its
\* record go on as without it: every write is in the cell, a bus delivery is
\* enabled and the outbound binding can take what it has not seen.
C20_MonitorsFailOpen ==
    asm = "ground" =>
        \A r \in {"SwitchState", "Temperature", "SwitchControl"} :
            /\ LoggedError(r) <=> mon[r].pc = "failed"
            /\ mon[r].pc = "failed" =>
                  /\ log[r] = <<[kind |-> "started"], [kind |-> "error"]>>
                  /\ \A ok \in BOOLEAN : ~ENABLED MonitorSubscribe(r, ok)
                  /\ ~ENABLED MonitorRecv(r)
                  /\ phase = "running"
                  /\ cell[r].written = Len(writes[r])
                  /\ writes[r] # <<>> => Latest(cell[r]) = writes[r][Len(writes[r])]
                  /\ (r \in BusInbound /\ events < MaxEvents(asm)) =>
                        \A data \in BusPayloads(r) : ENABLED Deliver(r, data)
                  /\ (CanRecv(cell[r], out[r]) /\ ~sending[r]) =>
                        ENABLED Publish(r, TRUE)

\* C20 witness: the monitor of SwitchState failed to subscribe and logged one
\* error; two values were then written to the cell and published
C20_FailedMonitorBindingsWork ==
    /\ asm = "ground"
    /\ mon["SwitchState"].pc = "failed"
    /\ log["SwitchState"] = <<[kind |-> "started"], [kind |-> "error"]>>
    /\ Len(writes["SwitchState"]) = 2
    /\ SentSeqs("SwitchState") = <<1, 2>>

(***************************************************************************)
(* C21: the lifecycle of a monitor                                         *)
(***************************************************************************)
\* The entry a subscribed monitor's next read yields
Yielded(r) == Recv(cell[r], mon[r].cur)

\* The step is a read of r's monitor that returned an error: an event that
\* writes no cell
FailedRead(r) ==
    /\ events' = events + 1
    /\ cell' = cell
    /\ mon[r].pc = "subscribed"
    /\ mon'[r].pc = "ended"

\* C21: After a successful subscribe a monitor logs every value its reader
\* yields, one log entry per yielded value, and stays subscribed after each
\* successful read; it terminates exactly in a step in which its read returns
\* an error, and a terminated monitor logs nothing more and stays terminated.
C21_MonitorLifecycle ==
    [][\A r \in RecordIds :
          /\ (mon[r].pc = "subscribed"
                /\ (\/ log'[r] # log[r]
                    \/ mon'[r].pc = "subscribed" /\ mon'[r].cur # mon[r].cur))
                => /\ CanRecv(cell[r], mon[r].cur)
                   /\ log'[r] = Append(log[r], [kind |-> "value",
                                                line |-> MonitorLine(Yielded(r).val),
                                                seq |-> Yielded(r).seq])
                   /\ mon'[r] = [mon[r] EXCEPT !.cur = Yielded(r).seq]
          /\ (mon[r].pc = "subscribed" /\ mon'[r].pc # "subscribed")
                => FailedRead(r) /\ log'[r] = log[r]
          /\ mon[r].pc = "ended" => mon'[r] = mon[r] /\ log'[r] = log[r]
          /\ mon'[r].pc = "ended" => mon[r].pc \in {"subscribed", "ended"}]_vars

\* C21 witness: on the gateway the SwitchState monitor logged the one value
\* written to its cell and then ended on a failed read, while the Temperature
\* monitor is still subscribed
C21_LoggedThenEnded ==
    /\ asm = "ground"
    /\ mon["SwitchState"].pc = "ended"
    /\ Len(writes["SwitchState"]) = 1
    /\ Len(log["SwitchState"]) = 2
    /\ log["SwitchState"][1].kind = "started"
    /\ log["SwitchState"][2].kind = "value"
    /\ log["SwitchState"][2].seq = 1
    /\ mon["Temperature"].pc = "subscribed"

(***************************************************************************)
(* C22: the console's LightState, a latest-value record without an inbound *)
(* binding                                                                 *)
(***************************************************************************)
\* C22: the cell of the console's LightState is never Populated and
\* its outbound binding never publishes.
C22_NeverLeavesEmpty ==
    asm = "console"
        => /\ ~Populated(cell["LightState"])
           /\ sent["LightState"] = <<>>

(***************************************************************************)
(* C23: the subscribers of a ring cell: on the console the outbound        *)
(* binding of SwitchControl and a remote subscriber                        *)
(***************************************************************************)
\* The position of the entry a reader at cursor cur reads next from cell c: the
\* one after its cursor, or the oldest surviving one if that was overwritten
NextPosition(c, cur) ==
    IF cur + 1 >= c.buf[1].seq THEN cur + 1 ELSE c.buf[1].seq

\* The reader at cursor cur has not been overrun: the entry after its cursor
\* is among the last RingCapacity written
KeptUp(c, cur) == c.written - cur <= RingCapacity

\* C23: Each subscriber of the ring reads at strictly increasing write
\* positions; a read of a subscriber that kept up returns the entry after its
\* cursor and a read of a subscriber whose cursor was overwritten returns the
\* oldest surviving entry; a read moves only the cursor of the subscriber that
\* read, so the loss of one subscriber is not a loss of the other.
C23_RingSubscribers ==
    [][asm = "tower"
          => LET r == "SwitchControl"
                 c == cell[r]
             IN  /\ out'[r] # out[r]
                      => /\ out'[r] > out[r]
                         /\ out'[r] = NextPosition(c, out[r])
                         /\ KeptUp(c, out[r]) => out'[r] = out[r] + 1
                         /\ sub' = sub
                 /\ (sub.pc = "subscribed" /\ sub' # sub)
                      => /\ sub.rec = r
                         /\ sub'.cur > sub.cur
                         /\ sub'.cur = NextPosition(c, sub.cur)
                         /\ KeptUp(c, sub.cur) => sub'.cur = sub.cur + 1
                         /\ sub'.seen = Append(sub.seen, sub'.cur)
                         /\ out' = out
                 /\ Increasing(SentSeqs(r))
                 /\ sub.pc = "subscribed" => Increasing(sub.seen)]_vars

\* C23 witness: three commands were written to the ring of capacity two; the
\* outbound binding, which read nothing before the third, lost the first and
\* continued at the oldest surviving one, while the remote subscriber, which
\* kept up, read all three
C23_OneLaggedOneKeptUp ==
    /\ asm = "tower"
    /\ cell["SwitchControl"].written = RingCapacity + 1
    /\ SentSeqs("SwitchControl") = <<2, 3>>
    /\ sub.pc = "subscribed"
    /\ sub.seen = <<1, 2, 3>>

(***************************************************************************)
(* C24: a subscription is a stream of changes                              *)
(***************************************************************************)
\* C24: A monitor that subscribed to a latest-value cell after values were
\* written receives none of them: while no later write has happened its read
\* has nothing to return, and everything it logs is the value of a write later
\* than its subscription; no subscriber, monitor or outbound binding, is given
\* the same write twice.
C24_SubscriptionIsChangeStream ==
    asm = "ground"
        => \A r \in {"SwitchState", "Temperature", "SwitchControl"} :
              /\ Increasing(SentSeqs(r))
              /\ Increasing(LoggedSeqs(r))
              /\ mon[r].pc = "subscribed"
                    => /\ \A i \in 1..Len(LoggedSeqs(r)) :
                             LoggedSeqs(r)[i] > mon[r].since
                       /\ mon[r].cur >= mon[r].since
                       /\ cell[r].written = mon[r].since
                             => /\ ~CanRecv(cell[r], mon[r].cur)
                                /\ ~ENABLED MonitorRecv(r)
                                /\ LoggedSeqs(r) = <<>>

\* C24 witness: the SwitchState monitor subscribed after the first telegram was
\* written and logged the second and nothing else
C24_SubscribedLateLoggedNext ==
    /\ asm = "ground"
    /\ mon["SwitchState"].pc = "subscribed"
    /\ mon["SwitchState"].since = 1
    /\ cell["SwitchState"].written = 2
    /\ LoggedSeqs("SwitchState") = <<2>>

(***************************************************************************)
(* C25: the textual decoders of the embedded build and of the console      *)
(* fail on invalid UTF-8 only                                              *)
(***************************************************************************)
\* The record with every field at its zero value
ZeroValue(fn) ==
    IF fn \in {"deserialize_temp_nostd", "console_temperature_deserializer"}
    THEN Temp(<<>>, Celsius(0), 0)
    ELSE Switch(<<>>, FALSE, 0)

\* C25: A textual decoder of the embedded build or of the console returns an
\* error if and only if the payload is not valid UTF-8; a valid payload that
\* holds no member (empty, blank, not an object) decodes to the record with
\* every field at its zero value; and the record deserialize_control decoded is
\* published by the gateway's outbound binding as one telegram byte to
\* knx://1/0/6.
C25_OnlyInvalidUtf8Fails ==
    Returned("decode_payload")
        => /\ last.res.ok <=> Utf8Valid(last.call.data)
           /\ last.call.data \in InvalidTexts => ~last.res.ok
           /\ last.call.data \in MemberlessTexts
                 => last.res.ok /\ last.res.val = ZeroValue(last.call.fn)
           /\ (last.call.fn = "deserialize_control_nostd" /\ last.res.ok)
                 => /\ last.pub # None
                    /\ last.pub.ep = "knx://1/0/6"
                    /\ last.pub.enc.ok
                    /\ last.pub.enc.val = <<IF last.res.val.is_on THEN 1 ELSE 0>>

\* C25 witness: deserialize_control decoded the empty payload to the zero
\* SwitchControl, which is published as the telegram 0x00
C25_EmptyPayloadDecoded ==
    /\ Returned("decode_payload")
    /\ last.call.fn = "deserialize_control_nostd"
    /\ last.call.data = <<>>
    /\ last.res = Ok(Switch(<<>>, FALSE, 0))
    /\ last.pub.enc = Ok(<<0>>)

(***************************************************************************)
(* C26: the bus destination of a command does not depend on its content    *)
(***************************************************************************)
\* C26: For any two SwitchControl values that agree on is_on the gateway's
\* outbound binding sends the same telegram: to the endpoint knx://1/0/6, with
\* the same single byte; the address and the timestamp of the command have no
\* part in it.
C26_DestinationIndependentOfCommand ==
    Returned("control_pair")
        => /\ last.a.ep = "knx://1/0/6" /\ last.b.ep = "knx://1/0/6"
           /\ last.a.enc.ok /\ last.b.enc.ok
           /\ Len(last.a.enc.val) = 1 /\ Len(last.b.enc.val) = 1
           /\ last.call.a.is_on = last.call.b.is_on => last.a = last.b
           /\ last.call.a.is_on # last.call.b.is_on => last.a.enc # last.b.enc

\* C26 witness: a command addressed to 1/0/7 and one addressed to 1/0/6, both
\* ON and with different timestamps, gave the same telegram 0x01 to knx://1/0/6
C26_OtherAddressSameTelegram ==
    /\ Returned("control_pair")
    /\ last.call.a = Switch(Addr107, TRUE, 42)
    /\ last.call.b = Switch(Addr106, TRUE, 0)
    /\ last.a = [ep |-> "knx://1/0/6", enc |-> Ok(<<1>>)]
    /\ last.b = last.a

(***************************************************************************)
(* C27: console and gateway are wire-compatible on the switch records      *)
(***************************************************************************)
\* C27: For every switch record whose address is over digits and '/' with at
\* most 16 characters, what the host build's serialize_control writes is
\* decoded by the embedded build's deserialize_control to the same address,
\* is_on and timestamp, and what the embedded build's serialize_state writes is
\* decoded by the host build's deserialize_state to the same SwitchState.
C27_WireCompatible ==
    Returned("cross_build")
        => /\ last.enc.ok
           /\ last.res.ok
           /\ last.res.val = last.call.val

\* C27 witness: the console's command for a 16-character address with a
\* nine-digit timestamp, decoded by the gateway
C27_LongCommandCrossed ==
    /\ Returned("cross_build")
    /\ last.call.path = "control_std_to_nostd"
    /\ Len(last.call.val.address) = AddrCapacity
    /\ last.call.val.is_on
    /\ last.call.val.timestamp = 999999999
    /\ last.res = Ok(last.call.val)

(***************************************************************************)
(* C28: a key that occurs more than once                                   *)
(***************************************************************************)
\* C28: When a payload holds a key twice, the decoders of the embedded build
\* and of the console return what they return for the payload that holds only
\* the second occurrence: every field, the address included, takes the value
\* of the last occurrence.
C28_LastOccurrenceWins ==
    Returned("decode_duplicate")
        => /\ last.res.ok
           /\ last.res = last.base

(***************************************************************************)
(* C29: the address decoded by the embedded decoders                       *)
(***************************************************************************)
\* The text between the quotes of a quoted value
Unquoted(v) == SubSeq(v, 2, Len(v) - 1)

\* The fields other than the address are those of the payload of the call
OtherFieldsDecoded(fn, v) ==
    /\ v.timestamp = 42
    /\ IF fn \in SwitchPayloadDecoders THEN v.is_on ELSE v.celsius = Celsius(2150)

\* C29: For every textual payload the address an embedded decoder returns has
\* at most 16 characters and is exactly the payload's address value or empty,
\* never a part of it; an address value longer than 16 characters does not
\* fail the decode but leaves the address empty, with the other fields still
\* taken from the payload.
C29_AddressWholeOrEmpty ==
    /\ (Returned("decode_member") /\ last.call.field = "address"
        /\ last.call.fn \in EmbeddedDecoders)
          => /\ last.res.ok
             /\ Len(last.res.val.address) <= AddrCapacity
             /\ last.res.val.address \in {last.call.value, <<>>}
             /\ Len(last.call.value) > AddrCapacity
                  => /\ last.res.val.address = <<>>
                     /\ OtherFieldsDecoded(last.call.fn, last.res.val)
    /\ (Returned("decode_duplicate") /\ last.call.field = "address"
        /\ last.call.fn \in EmbeddedDecoders)
          => /\ last.res.ok
             /\ Len(last.res.val.address) <= AddrCapacity
             /\ last.res.val.address
                  \in {Unquoted(last.call.first), Unquoted(last.call.second), <<>>}

(***************************************************************************)
(* C30: what counts as true                                                *)
(***************************************************************************)
\* The value texts that are the literal true once surrounding whitespace is
\* trimmed
TrueTexts ==
    {StrTrue, <<" ">> \o StrTrue \o <<" ", "\n">>, StrTrue \o <<"\r", "\n">>,
     <<"u00A0">> \o StrTrue}

\* C30: The switch decoders of the embedded build and of the console decode
\* is_on to true if and only if the value text, trimmed of surrounding
\* whitespace, is the literal true; any other value text decodes to false
\* without an error, and the gateway publishes the command so decoded as the
\* OFF telegram 0x00 to knx://1/0/6.
C30_OnlyLiteralTrueIsOn ==
    (Returned("decode_member") /\ last.call.field = "is_on")
        => /\ last.res.ok
           /\ last.res.val.is_on <=> last.call.value \in TrueTexts
           /\ last.res.val.address = Addr106
           /\ last.res.val.timestamp = 42
           /\ last.call.fn = "deserialize_control_nostd"
                 => /\ last.pub # None
                    /\ last.pub.ep = "knx://1/0/6"
                    /\ last.pub.enc
                         = Ok(<<IF last.call.value \in TrueTexts THEN 1 ELSE 0>>)

\* C30 witness: the command {"is_on":1,...} decoded to is_on = false and was
\* published as the OFF telegram
C30_OneIsOff ==
    /\ Returned("decode_member")
    /\ last.call.fn = "deserialize_control_nostd"
    /\ last.call.field = "is_on"
    /\ last.call.value = <<"1">>
    /\ last.res.ok
    /\ ~last.res.val.is_on
    /\ last.pub = [ep |-> "knx://1/0/6", enc |-> Ok(<<0>>)]

=============================================================================
